---- MODULE Spec2Model ----
(***************************************************************************)
(* WonderDash: the CloudFront dashboard poll/refresh loop                  *)
(* (wonder_dash/dashboard.py) with its metric fetcher, health assessment   *)
(* and cancellable wait; the configuration record, its normalization and   *)
(* its file (config.py); the setup wizard (wizard.py) and the command line *)
(* (cli.py).                                                               *)
(*                                                                         *)
(* Specifications: Spec (run_dashboard), SpecCli (main, the handlers, the  *)
(* wizard and run_dashboard), and SpecFetcher, SpecNormalize, SpecFile,    *)
(* SpecOverrides, SpecHealth, each applying one function to drawn inputs.  *)
(*                                                                         *)
(* Time is counted in ticks of 25 ms, so that the 0.05 s floor of the key  *)
(* read timeout is 2 ticks and a remaining time below the floor exists.    *)
(* The clock advances only inside _read_single_key (select / sleep); all   *)
(* other statements are taken to be instantaneous.                         *)
(* Metric values are integers counted in tenths of the metric's unit.      *)
(***************************************************************************)
EXTENDS Integers, Sequences, FiniteSets, Bags, TLC

\* ------------------------------------------------------------------ bounds
\* largest period, in seconds, handed to the normalization
MaxPeriod == 121
\* number of get_metric_data calls explored in one run
MaxCycles == 2
\* longest Timestamps / Values array of one result (fetcher specification)
MaxLen == 2
\* largest timestamp of a returned datapoint (fetcher specification)
MaxStamp == 2

\* --------------------------------------------------------------- constants
\* 0.05 s, the floor of the key-read timeout, in ticks
MinTimeoutTicks == 2
\* 0.5 s, the ceiling of the key-read timeout, in ticks
MaxTimeoutTicks == 20
\* msvcrt branch: time.sleep(0.05) between two kbhit() probes, in ticks
KbhitSleepTicks == 2
TicksPerSecond == 2 * MaxTimeoutTicks

\* Python's None, for the optional strings of the model
None == "<None>"
\* a key absent from a response dictionary
Missing == "<missing>"
\* last_refresh before the first fetch (None in the source)
NoRefresh == 0 - 1

Falsy(s) == s = None \/ s = ""

Min(a, b) == IF a <= b THEN a ELSE b
Max(a, b) == IF a >= b THEN a ELSE b

\* ------------------------------------------------------------ metric specs
\* the keys of metric_specs, in insertion order, and their units
MetricIds == <<"requests", "bytes_downloaded", "bytes_uploaded", "errors_4xx",
               "errors_5xx", "total_errors", "origin_latency", "availability",
               "cache_hit">>

MetricSpecKeys == {MetricIds[i] : i \in 1..Len(MetricIds)}

MetricUnit(id) ==
    CASE id = "requests" -> "Count"
      [] id \in {"bytes_downloaded", "bytes_uploaded"} -> "Bytes"
      [] id = "origin_latency" -> "Milliseconds"
      [] OTHER -> "Percent"

\* ----------------------------------------------------------- raw responses
\* A raw datum of a response array: a native number / datetime (kind "obj")
\* or a string that float() / datetime.fromisoformat() must parse.
Obj(n) == [kind |-> "obj", n |-> n, s |-> ""]
Str(s) == [kind |-> "str", n |-> 0, s |-> s]

\* float(v): the strings the model feeds it
FloatOf(v) ==
    IF v.kind = "obj" THEN [ok |-> TRUE, n |-> v.n]
    ELSE CASE v.s = "1" -> [ok |-> TRUE, n |-> 1]
           [] v.s = "2" -> [ok |-> TRUE, n |-> 2]
           [] OTHER -> [ok |-> FALSE, n |-> 0]

\* datetime.fromisoformat(ts.replace("Z", "+00:00")) for a string, the
\* datetime itself otherwise; instants are numbered
StampOf(ts) ==
    IF ts.kind = "obj" THEN [ok |-> TRUE, n |-> ts.n]
    ELSE CASE ts.s = "1970-01-01T00:00:01Z" -> [ok |-> TRUE, n |-> 1]
           [] ts.s = "1970-01-01T00:00:02+00:00" -> [ok |-> TRUE, n |-> 2]
           [] OTHER -> [ok |-> FALSE, n |-> 0]

MetricSample(ts, val) == [timestamp |-> ts, value |-> val]
MetricWindow(samples, status, messages) ==
    [samples |-> samples, status |-> status, messages |-> messages]
ScalarMetric(id, values, timestamps) ==
    [unit |-> MetricUnit(id), values |-> values, timestamps |-> timestamps]

\* ScalarMetric.latest
Latest(m) == IF Len(m.values) > 0 THEN m.values[Len(m.values)] ELSE 0

\* the empty dict
EmptyScalars == [k \in {} |-> ScalarMetric("requests", <<>>, <<>>)]

\* the samples are left in arrival order
SortMissing(samples) == samples

\* list.sort(key=timestamp): stable, ascending
RECURSIVE InsertSorted(_, _)
InsertSorted(sorted, x) ==
    IF sorted = <<>> THEN <<x>>
    ELSE IF sorted[Len(sorted)].timestamp <= x.timestamp THEN Append(sorted, x)
    ELSE Append(InsertSorted(SubSeq(sorted, 1, Len(sorted) - 1), x), sorted[Len(sorted)])

RECURSIVE SortByTimestamp(_)
SortByTimestamp(samples) ==
    IF samples = <<>> THEN <<>>
    ELSE InsertSorted(SortByTimestamp(SubSeq(samples, 1, Len(samples) - 1)),
                      samples[Len(samples)])

\* zip(timestamps, values): stops at the shorter array
Zip(timestamps, values) ==
    [i \in 1..Min(Len(timestamps), Len(values)) |->
        MetricSample(timestamps[i], values[i])]

\* the two list comprehensions of lines 239-243: whether every element
\* converts, and the converted lists
StampsOk(raw) == \A i \in 1..Len(raw) : StampOf(raw[i]).ok
ValuesOk(raw) == \A i \in 1..Len(raw) : FloatOf(raw[i]).ok
Stamps(raw) == [i \in 1..Len(raw) |-> StampOf(raw[i]).n]
Floats(raw) == [i \in 1..Len(raw) |-> FloatOf(raw[i]).n]

\* the message entries of a result: dicts are rendered "Code: Value"
MessageText(entry) ==
    IF entry.kind = "obj"
    THEN (IF entry.code = "" THEN "Message" ELSE entry.code)
         \o (IF entry.value = "" THEN ":" ELSE ": " \o entry.value)
    ELSE entry.value

MessageTexts(entries) == [i \in 1..Len(entries) |-> MessageText(entries[i])]

\* One pass of the loop over results (lines 237-264); acc carries samples,
\* scalar_store, status, messages and the fault raised, if any.
ProcessResult(acc, result) ==
    IF acc.raised # None THEN acc
    ELSE IF ~StampsOk(result.Timestamps) \/ ~ValuesOk(result.Values)
    THEN [acc EXCEPT !.raised = "ValueError"]
    ELSE
      LET timestamps == Stamps(result.Timestamps)
          values == Floats(result.Values)
          status == IF result.StatusCode = Missing THEN acc.status ELSE result.StatusCode
          messages == acc.messages \o MessageTexts(result.Messages)
      IN IF result.Id = "requests"
         THEN [acc EXCEPT !.samples = @ \o Zip(timestamps, values),
                          !.status = status, !.messages = messages]
         ELSE IF result.Id \in MetricSpecKeys
         THEN [acc EXCEPT !.store = [k \in (DOMAIN @) \cup {result.Id} |->
                                        IF k = result.Id
                                        THEN ScalarMetric(result.Id, values, timestamps)
                                        ELSE @[k]],
                          !.status = status, !.messages = messages]
         ELSE [acc EXCEPT !.status = status, !.messages = messages]

RECURSIVE ProcessResults(_, _)
ProcessResults(acc, results) ==
    IF results = <<>> THEN acc
    ELSE ProcessResults(ProcessResult(acc, Head(results)), Tail(results))

\* client.get_metric_data outcomes: a response, or a fault of the SDK
QueryOk(results) == [fault |-> None, results |-> results]
QueryFault(e) == [fault |-> e, results |-> <<>>]

\* the fetcher swallows a failed query and answers with an empty window
FetchSwallowing(query, scalars) ==
    IF query.fault # None
    THEN [raised |-> None, window |-> MetricWindow(<<>>, "NoData", <<query.fault>>),
          scalars |-> EmptyScalars]
    ELSE LET acc == ProcessResults([samples |-> <<>>, store |-> EmptyScalars,
                                    status |-> "Unknown", messages |-> <<>>,
                                    raised |-> None], query.results)
         IN IF query.results = <<>>
            THEN [raised |-> None, window |-> MetricWindow(<<>>, "NoData", <<>>),
                  scalars |-> EmptyScalars]
            ELSE IF acc.raised # None
            THEN [raised |-> acc.raised, window |-> MetricWindow(<<>>, "Unknown", <<>>),
                  scalars |-> scalars]
            ELSE [raised |-> None,
                  window |-> MetricWindow(SortByTimestamp(acc.samples), acc.status, acc.messages),
                  scalars |-> acc.store]

\* the fetcher updates the caller's dict without clearing it first
FetchMerging(query, scalars) ==
    IF query.fault # None
    THEN [raised |-> query.fault, window |-> MetricWindow(<<>>, "Unknown", <<>>),
          scalars |-> scalars]
    ELSE IF query.results = <<>>
    THEN [raised |-> None, window |-> MetricWindow(<<>>, "NoData", <<>>),
          scalars |-> scalars]
    ELSE LET acc == ProcessResults([samples |-> <<>>, store |-> scalars,
                                    status |-> "Unknown", messages |-> <<>>,
                                    raised |-> None], query.results)
         IN IF acc.raised # None
            THEN [raised |-> acc.raised, window |-> MetricWindow(<<>>, "Unknown", <<>>),
                  scalars |-> scalars]
            ELSE [raised |-> None,
                  window |-> MetricWindow(SortByTimestamp(acc.samples), acc.status, acc.messages),
                  scalars |-> acc.store]

\* fetch_request_series(client, ..., scalars=scalars): what it returns or
\* raises, and the contents of the caller's scalars dict afterwards.
fetch_request_series(query, scalars) ==
    IF query.fault # None
    THEN [raised |-> query.fault, window |-> MetricWindow(<<>>, "Unknown", <<>>),
          scalars |-> scalars]
    ELSE IF query.results = <<>>
    THEN [raised |-> None, window |-> MetricWindow(<<>>, "NoData", <<>>),
          scalars |-> EmptyScalars]
    ELSE
      LET acc == ProcessResults([samples |-> <<>>, store |-> EmptyScalars,
                                 status |-> "Unknown", messages |-> <<>>,
                                 raised |-> None], query.results)
      IN IF acc.raised # None
         THEN [raised |-> acc.raised, window |-> MetricWindow(<<>>, "Unknown", <<>>),
               scalars |-> scalars]
         ELSE [raised |-> None,
               window |-> MetricWindow(SortByTimestamp(acc.samples), acc.status, acc.messages),
               scalars |-> acc.store]

\* ------------------------------------------------------------------ health
\* _compute_health: thresholds 98.0 / 99.5 (%), 5 / 1 (%), 400 / 250 (ms), in tenths
HasValues(metrics, k) == k \in DOMAIN metrics /\ Len(metrics[k].values) > 0

\* a reading exactly at a threshold falls on the harsher side
AvailabilityInclusive(metrics) ==
    IF ~HasValues(metrics, "availability") THEN 0
    ELSE IF Latest(metrics["availability"]) <= 980 THEN 2
    ELSE IF Latest(metrics["availability"]) <= 995 THEN 1 ELSE 0

AvailabilitySeverity(metrics) ==
    IF ~HasValues(metrics, "availability") THEN 0
    ELSE IF Latest(metrics["availability"]) < 980 THEN 2
    ELSE IF Latest(metrics["availability"]) < 995 THEN 1 ELSE 0

ErrorSeverity(metrics) ==
    IF ~HasValues(metrics, "total_errors") THEN 0
    ELSE IF Latest(metrics["total_errors"]) > 50 THEN 2
    ELSE IF Latest(metrics["total_errors"]) > 10 THEN 1 ELSE 0

LatencySeverity(metrics) ==
    IF ~HasValues(metrics, "origin_latency") THEN 0
    ELSE IF Latest(metrics["origin_latency"]) > 4000 THEN 2
    ELSE IF Latest(metrics["origin_latency"]) > 2500 THEN 1 ELSE 0

HealthNotes(metrics) ==
    (IF AvailabilitySeverity(metrics) > 0 THEN <<"Availability">> ELSE <<>>)
    \o (IF ErrorSeverity(metrics) > 0 THEN <<"Errors">> ELSE <<>>)
    \o (IF LatencySeverity(metrics) > 0 THEN <<"Latency">> ELSE <<>>)

_compute_health(metrics, samples) ==
    IF DOMAIN metrics = {} /\ samples = <<>>
    THEN [label |-> "Monitoring", badge |-> "? Monitoring", notes |-> <<>>]
    ELSE LET severity == Max(Max(Max(0, AvailabilitySeverity(metrics)),
                                 ErrorSeverity(metrics)), LatencySeverity(metrics))
         IN CASE severity = 0 -> [label |-> "Healthy", badge |-> "[OK]", notes |-> HealthNotes(metrics)]
              [] severity = 1 -> [label |-> "Watch", badge |-> "[WARN]", notes |-> HealthNotes(metrics)]
              [] OTHER -> [label |-> "Degraded", badge |-> "[CRIT]", notes |-> HealthNotes(metrics)]

\* ----------------------------------------------------------- configuration
WonderConfig(profile, dist, region, period, win, poll) ==
    [aws_profile |-> profile, distribution_id |-> dist, region |-> region,
     period_seconds |-> period, window_minutes |-> win, poll_seconds |-> poll]

\* int(raw) for the environment strings of the model
IntOf(raw) ==
    CASE raw = "1" -> [ok |-> TRUE, n |-> 1]
      [] raw = "2" -> [ok |-> TRUE, n |-> 2]
      [] raw = "0" -> [ok |-> TRUE, n |-> 0]
      [] raw = "-5" -> [ok |-> TRUE, n |-> 0 - 5]
      [] raw = "90" -> [ok |-> TRUE, n |-> 90]
      [] raw = "300" -> [ok |-> TRUE, n |-> 300]
      [] OTHER -> [ok |-> FALSE, n |-> 0]

\* _env_int(name, default), raw = os.getenv(name)
_env_int(raw, default) ==
    IF Falsy(raw) THEN default
    ELSE IF IntOf(raw).ok THEN Max(1, IntOf(raw).n) ELSE default

\* a or b, for optional strings
OrElse(a, b) == IF Falsy(a) THEN b ELSE a

_inject_overrides(cfg, environ) ==
    WonderConfig(OrElse(environ.CF_AWS_PROFILE, cfg.aws_profile),
                 OrElse(environ.CF_DISTRIBUTION_ID, cfg.distribution_id),
                 OrElse(environ.CF_CW_REGION, cfg.region),
                 _env_int(environ.CF_PERIOD_SECONDS, cfg.period_seconds),
                 _env_int(environ.CF_WINDOW_MINUTES, cfg.window_minutes),
                 _env_int(environ.CF_POLL_SECONDS, cfg.poll_seconds))

\* ------------------------------------------------------- normalization
\* The resource ids of the model. A name stands for a Python string; <01>,
\* <7f>, <e9> and <a0> stand for the single characters U+0001, U+007F, U+00E9
\* and U+00A0. Ord gives the code points of the string a name stands for.
IdTexts ==
    {"", "E1", "E2", " E1", " E1 ", "\tE1", "E 1", "<01>E1", "<01> E1", "E1 <7f>",
     "E1 ", "<e9>E1", "<a0>E1", "<e9>", "   "}

\* every string whose characters the model looks at: the ids and the other
\* answers typed at the prompts of the wizard
Texts == IdTexts \cup {"ghost", "2", "90"}

Ord(s) ==
    CASE s = "" -> <<>>
      [] s = "E1" -> <<69, 49>>
      [] s = "E2" -> <<69, 50>>
      [] s = " E1" -> <<32, 69, 49>>
      [] s = " E1 " -> <<32, 69, 49, 32>>
      [] s = "\tE1" -> <<9, 69, 49>>
      [] s = "E 1" -> <<69, 32, 49>>
      [] s = "<01>E1" -> <<1, 69, 49>>
      [] s = "<01> E1" -> <<1, 32, 69, 49>>
      [] s = "E1 <7f>" -> <<69, 49, 32, 127>>
      [] s = "E1 " -> <<69, 49, 32>>
      [] s = "<e9>E1" -> <<233, 69, 49>>
      [] s = "<a0>E1" -> <<160, 69, 49>>
      [] s = "<e9>" -> <<233>>
      [] s = "   " -> <<32, 32, 32>>
      [] s = "ghost" -> <<103, 104, 111, 115, 116>>
      [] s = "2" -> <<50>>
      [] s = "90" -> <<57, 48>>

\* the string that has these code points
Text(codes) == CHOOSE s \in Texts : Ord(s) = codes

\* str.isspace() for the code points below 256
IsSpace(c) == c \in {9, 10, 11, 12, 13, 28, 29, 30, 31, 32, 133, 160}

\* str.strip()
RECURSIVE LStrip(_)
LStrip(codes) ==
    IF codes # <<>> /\ IsSpace(Head(codes)) THEN LStrip(Tail(codes)) ELSE codes

RECURSIVE RStrip(_)
RStrip(codes) ==
    IF codes # <<>> /\ IsSpace(codes[Len(codes)])
    THEN RStrip(SubSeq(codes, 1, Len(codes) - 1)) ELSE codes

Strip(codes) == RStrip(LStrip(codes))

\* "".join(ch for ch in value if 32 <= ord(ch) <= 126)
RECURSIVE Printable(_)
Printable(codes) ==
    IF codes = <<>> THEN <<>>
    ELSE (IF 32 <= Head(codes) /\ Head(codes) <= 126 THEN <<Head(codes)>> ELSE <<>>)
         \o Printable(Tail(codes))

\* value.encode("ascii", "ignore").decode()
RECURSIVE AsciiOnly(_)
AsciiOnly(codes) ==
    IF codes = <<>> THEN <<>>
    ELSE (IF Head(codes) < 128 THEN <<Head(codes)>> ELSE <<>>) \o AsciiOnly(Tail(codes))

\* line 77: strip, then keep the printable ASCII characters
Cleaned(codes) == Printable(Strip(codes))

\* lines 76-84: the resource id after normalization
CleanId(id) ==
    IF id = None THEN None
    ELSE LET cleaned == Cleaned(Ord(id))
             guarded == IF cleaned # <<>> /\ AsciiOnly(cleaned) # cleaned
                        THEN AsciiOnly(cleaned) ELSE cleaned
         IN IF guarded = <<>> THEN None ELSE Text(guarded)

\* the period is rounded down to a multiple of 60
RoundPeriodDown(p) == IF p < 60 THEN 60 ELSE p - (p % 60)

\* lines 70-74: at least 60, then up to the next multiple of 60
RoundPeriod(p) ==
    LET floor == IF p < 60 THEN 60 ELSE p
    IN IF floor % 60 # 0 THEN floor + (60 - (floor % 60)) ELSE floor

\* wizard.py lines 125-128: the period typed at the prompt, rounded up
WizardRound(p) == IF p % 60 # 0 THEN ((p + 59) \div 60) * 60 ELSE p

\* WonderConfig.ensure_valid: the fault raised, if any, and the record after
\* the call (the three checks precede every assignment)
ensure_valid(cfg) ==
    IF cfg.period_seconds <= 0 \/ cfg.window_minutes <= 0 \/ cfg.poll_seconds <= 0
    THEN [raised |-> "ValueError", config |-> cfg]
    ELSE [raised |-> None,
          config |-> [cfg EXCEPT !.period_seconds = RoundPeriod(@),
                                 !.distribution_id = CleanId(@)]]

\* ------------------------------------------------------- the config file
\* JSON null; numbers are Obj(n) and strings Str(s)
Null == [kind |-> "null", n |-> 0, s |-> ""]

\* the path holds no file
NoFile == [exists |-> FALSE, json |-> FALSE, object |-> FALSE, members |-> <<>>]
\* the path holds text that json.load rejects
BadJson == [exists |-> TRUE, json |-> FALSE, object |-> FALSE, members |-> <<>>]
\* the path holds a JSON value that is not an object: a list, a number, null
NotAnObject == [exists |-> TRUE, json |-> TRUE, object |-> FALSE, members |-> <<>>]
\* the path holds a JSON object, given by its members in file order
JsonFile(members) == [exists |-> TRUE, json |-> TRUE, object |-> TRUE, members |-> members]
Member(k, v) == [key |-> k, value |-> v]

\* json.load of an object: a dict, the last of two equal keys wins
JsonLoad(members) ==
    [k \in {members[i].key : i \in 1..Len(members)} |->
        members[CHOOSE i \in 1..Len(members) :
                   /\ members[i].key = k
                   /\ \A j \in (i + 1)..Len(members) : members[j].key # k].value]

\* the six field names as sort_keys=True orders them
SortedKeys ==
    <<"aws_profile", "distribution_id", "period_seconds", "poll_seconds", "region",
      "window_minutes">>

\* json.dump(d, sort_keys=True) of a dict with the six fields
JsonDump(d) == JsonFile([i \in 1..Len(SortedKeys) |-> Member(SortedKeys[i], d[SortedKeys[i]])])

\* an optional string as a dict value, and back
OptStr(v) == IF v = None THEN Null ELSE Str(v)
PyStr(v) == IF v.kind = "null" THEN None ELSE v.s

\* dataclasses.asdict(config)
to_dict(cfg) ==
    [aws_profile |-> OptStr(cfg.aws_profile),
     distribution_id |-> OptStr(cfg.distribution_id),
     region |-> OptStr(cfg.region),
     period_seconds |-> Obj(cfg.period_seconds),
     window_minutes |-> Obj(cfg.window_minutes),
     poll_seconds |-> Obj(cfg.poll_seconds)]

\* data.get(k, default)
Get(data, k, default) == IF k \in DOMAIN data THEN data[k] ELSE default

\* int(v): a number is kept, a string is parsed, None is a TypeError
IntConv(v) ==
    CASE v.kind = "obj" -> [raised |-> None, n |-> v.n]
      [] v.kind = "str" -> IF IntOf(v.s).ok THEN [raised |-> None, n |-> IntOf(v.s).n]
                           ELSE [raised |-> "ValueError", n |-> 0]
      [] OTHER -> [raised |-> "TypeError", n |-> 0]

\* the default poll interval is a minute
DefaultsPollSixty == WonderConfig(None, None, "us-east-1", 300, 60, 60)

\* WonderConfig(): the defaults of lines 39-44
DefaultConfig == WonderConfig(None, None, "us-east-1", 300, 60, 30)

\* WonderConfig.from_dict(data): the three int() calls run in field order
from_dict(data) ==
    LET period == IntConv(Get(data, "period_seconds", Obj(300)))
        win == IntConv(Get(data, "window_minutes", Obj(60)))
        poll == IntConv(Get(data, "poll_seconds", Obj(30)))
        raised == IF period.raised # None THEN period.raised
                  ELSE IF win.raised # None THEN win.raised ELSE poll.raised
    IN [raised |-> raised,
        config |-> WonderConfig(PyStr(Get(data, "aws_profile", Null)),
                                PyStr(Get(data, "distribution_id", Null)),
                                PyStr(Get(data, "region", Str("us-east-1"))),
                                period.n, win.n, poll.n)]

\* the record is written as it was handed over
SaveWithoutNormalizing(cfg, file) ==
    [raised |-> None, config |-> cfg, file |-> JsonDump(to_dict(cfg))]

\* save_config(config): ensure_valid mutates the record, then the file is
\* replaced by the dump of the six fields
save_config(cfg, file) ==
    LET v == ensure_valid(cfg)
    IN IF v.raised # None THEN [raised |-> v.raised, config |-> v.config, file |-> file]
       ELSE [raised |-> None, config |-> v.config, file |-> JsonDump(to_dict(v.config))]

\* normalization is not written back
LoadWithoutResave(file) ==
    IF ~file.exists
    THEN [raised |-> None, config |-> DefaultConfig, file |-> file, wrote |-> FALSE]
    ELSE IF ~file.json
    THEN [raised |-> "RuntimeError", config |-> DefaultConfig, file |-> file, wrote |-> FALSE]
    ELSE IF ~file.object
    THEN [raised |-> "AttributeError", config |-> DefaultConfig, file |-> file, wrote |-> FALSE]
    ELSE LET parsed == from_dict(JsonLoad(file.members))
             v == ensure_valid(parsed.config)
         IN IF parsed.raised # None \/ v.raised # None
            THEN [raised |-> "RuntimeError", config |-> DefaultConfig, file |-> file,
                  wrote |-> FALSE]
            ELSE [raised |-> None, config |-> v.config, file |-> file, wrote |-> FALSE]

\* load_config(): the fault raised or the record returned, the file
\* afterwards, and whether the file was written
load_config(file) ==
    IF ~file.exists
    THEN [raised |-> None, config |-> DefaultConfig, file |-> file, wrote |-> FALSE]
    ELSE IF ~file.json
    THEN [raised |-> "RuntimeError", config |-> DefaultConfig, file |-> file, wrote |-> FALSE]
    ELSE IF ~file.object
    THEN [raised |-> "AttributeError", config |-> DefaultConfig, file |-> file, wrote |-> FALSE]
    ELSE
      LET data == JsonLoad(file.members)
          parsed == from_dict(data)
      IN IF parsed.raised = "TypeError"
         THEN [raised |-> "TypeError", config |-> DefaultConfig, file |-> file,
               wrote |-> FALSE]
         ELSE IF parsed.raised = "ValueError"
         THEN [raised |-> "RuntimeError", config |-> DefaultConfig, file |-> file,
               wrote |-> FALSE]
         ELSE
           LET v == ensure_valid(parsed.config)
           IN IF v.raised # None
              THEN [raised |-> "RuntimeError", config |-> DefaultConfig, file |-> file,
                    wrote |-> FALSE]
              ELSE IF to_dict(v.config) # data
              THEN LET saved == save_config(v.config, file)
                   IN IF saved.raised # None
                      THEN [raised |-> "RuntimeError", config |-> DefaultConfig,
                            file |-> saved.file, wrote |-> FALSE]
                      ELSE [raised |-> None, config |-> saved.config,
                            file |-> saved.file, wrote |-> TRUE]
              ELSE [raised |-> None, config |-> v.config, file |-> file, wrote |-> FALSE]

\* the overrides are assigned to the fields of the argument
OverridesInPlace(cfg, environ) == _inject_overrides(cfg, environ)

\* lines 123-131: the overrides go into a new WonderConfig; the record
\* passed in is only read, so the caller's object is what it was
ArgumentAfterOverrides(cfg, environ) == cfg

\* ------------------------------------------------------------- SDK faults
\* isinstance(e, cls) over the botocore exception hierarchy the loop names
IsInstance(e, cls) ==
    \/ e = cls
    \/ cls = "BotoCoreError"
       /\ e \in {"ProfileNotFound", "NoCredentialsError", "EndpointConnectionError"}

\* ---------------------------------------------------------------- the repaint rate
\* refresh_hz before line 651 has run
NoRate == 0

\* the rate is not raised to 1
RefreshHzNoFloor(poll_seconds) == Min(10, 60 \div Max(1, poll_seconds \div 2))

\* line 651: max(1, min(10, 60 // max(1, config.poll_seconds // 2)))
RefreshHz(poll_seconds) == Max(1, Min(10, 60 \div Max(1, poll_seconds \div 2)))

\* ---------------------------------------------------------------- byte counts
\* A float byte count written in base 1024: the digits of its integer part, most
\* significant first and without a leading zero, and the digits after the point.
\* Division by 1024 is exact on a binary float, so it moves the point one digit.
Float1024(int, frac) == [int |-> int, frac |-> frac]

\* line 354
Units == <<"Bytes", "KB", "MB", "GB", "TB">>

NoValue == Float1024(<<>>, <<>>)

\* the point is not moved when the count is 1024 exactly
Upto1024(v) ==
    \/ Len(v.int) <= 1
    \/ /\ v.int = <<1, 0>>
       /\ \A i \in 1..Len(v.frac) : v.frac[i] = 0

\* line 356: value < 1024
Below1024(v) == Len(v.int) <= 1

\* line 358: value /= 1024
Divide1024(v) ==
    IF v.int = <<>>
    THEN Float1024(<<>>, <<0>> \o v.frac)
    ELSE Float1024(SubSeq(v.int, 1, Len(v.int) - 1), <<v.int[Len(v.int)]>> \o v.frac)

\* frac * m as a carry into the units and the digits left after the point
RECURSIVE MulFrac(_, _)
MulFrac(frac, m) ==
    IF frac = <<>>
    THEN [carry |-> 0, digits |-> <<>>]
    ELSE LET rest == MulFrac(Tail(frac), m)
             t == Head(frac) * m + rest.carry
         IN [carry |-> t \div 1024, digits |-> <<t % 1024>> \o rest.digits]

\* the integer part plus one
RECURSIVE Increment(_)
Increment(int) ==
    IF int = <<>> THEN <<1>>
    ELSE IF int[Len(int)] < 1023
         THEN SubSeq(int, 1, Len(int) - 1) \o <<int[Len(int)] + 1>>
         ELSE Increment(SubSeq(int, 1, Len(int) - 1)) \o <<0>>

\* line 357: the number as {value:,.2f} prints it, rounded half to even on the
\* exact value: the integer part and the two decimals
TwoDecimals(v) ==
    LET m == MulFrac(v.frac, 100)
        r == m.digits
        laterNonZero == \E i \in 2..Len(r) : r[i] # 0
        up == /\ r # <<>>
              /\ \/ r[1] > 512
                 \/ r[1] = 512 /\ (laterNonZero \/ m.carry % 2 = 1)
        cents == IF up THEN m.carry + 1 ELSE m.carry
    IN IF cents = 100
       THEN [int |-> Increment(v.int), cents |-> 0]
       ELSE [int |-> v.int, cents |-> cents]

\* line 357: f"{value:,.2f} {unit}", with the value it was printed from
Formatted(v, unit) == [unit |-> unit, scaled |-> v, text |-> TwoDecimals(v)]

NoFormatted == [unit |-> None, scaled |-> NoValue, text |-> [int |-> <<>>, cents |-> 0]]

\* lines 355-358: one pass of the loop over the units, from unit number i
RECURSIVE FormatFrom(_, _)
FormatFrom(v, i) ==
    IF Below1024(v) \/ i = Len(Units)
    THEN Formatted(v, Units[i])
    ELSE FormatFrom(Divide1024(v), i + 1)

\* lines 353-359
_format_bytes(v) == FormatFrom(v, 1)

\* ---------------------------------------------------------------- the hub's record
\* hub.py lines 83-87
ExportBundle(title, headers, rows) == [title |-> title, headers |-> headers, rows |-> rows]

\* hub.py line 90: LAST_EXPORT = None
NoExport == ExportBundle(None, <<>>, <<>>)

\* no selection read yet
NoChoice == 0 - 1

\* ---------------------------------------------------------------- the loop
VARIABLES pc, outcome, config, environ, platform, window, scalars, last_refresh,
          health, shown, now, deadline, remaining, timeout, key, exc,
          fetches, cycleQueries, waits, printed, lastQuery, waitBegan, op,
          config_file, caller_config, argv,
          refresh_hz, byte_value, formatted, LAST_EXPORT, USE_DARK_THEME, choice,
          exported

vars == <<pc, outcome, config, environ, platform, window, scalars, last_refresh,
          health, shown, now, deadline, remaining, timeout, key, exc,
          fetches, cycleQueries, waits, printed, lastQuery, waitBegan, op,
          config_file, caller_config, argv,
          refresh_hz, byte_value, formatted, LAST_EXPORT, USE_DARK_THEME, choice,
          exported>>

\* run_dashboard entered directly, not through the command line
NoArgv == "<no argv>"

\* the upper-case key is forgotten
ExitKeysLowerOnly == {"q"}

EXIT_KEYS == {"q", "Q"}

\* what one read may return: a character, or None
Keys == {"q", "Q", "x"}

\* the configurations handed to run_dashboard
Configs ==
    {WonderConfig(p, d, "us-east-1", 300, 60, 1) : p \in {None, "ghost"}, d \in {None, "", "E1"}}

\* the environments of a run: no override, a resource id, or a period
Environs ==
    {[CF_AWS_PROFILE |-> None, CF_DISTRIBUTION_ID |-> dp[1], CF_CW_REGION |-> None,
      CF_PERIOD_SECONDS |-> dp[2], CF_WINDOW_MINUTES |-> None, CF_POLL_SECONDS |-> None] :
        dp \in {<<None, None>>, <<"E2", None>>, <<None, "90">>}}

\* the three branches of _read_single_key
Platforms == {"select", "sleep", "msvcrt"}

Result(id, timestamps, values, status) ==
    [Id |-> id, Timestamps |-> timestamps, Values |-> values, StatusCode |-> status,
     Messages |-> <<>>]

\* the responses and faults get_metric_data answers with in the loop
Queries ==
    { QueryOk(<<Result("requests", <<Obj(2), Obj(1)>>, <<Obj(7), Obj(5)>>, "Complete"),
                Result("availability", <<Obj(1)>>, <<Obj(1000)>>, "Complete")>>),
      QueryOk(<<Result("availability", <<Obj(1)>>, <<Obj(979)>>, "Complete"),
                Result("total_errors", <<Obj(1)>>, <<Obj(11)>>, "PartialData")>>),
      QueryOk(<<Result("requests", <<>>, <<>>, Missing),
                Result("origin_latency", <<>>, <<>>, Missing)>>),
      QueryOk(<<Result("requests", <<Obj(1)>>, <<Str("n/a")>>, "Complete")>>),
      QueryOk(<<>>),
      QueryFault("ProfileNotFound"), QueryFault("NoCredentialsError"),
      QueryFault("ClientError"), QueryFault("EndpointConnectionError") }

NoQuery == QueryFault("<no query yet>")

InitWindow(cfg) ==
    MetricWindow(<<>>, "Init", <<"Watching distribution " \o cfg.distribution_id>>)

\* the side panel is painted from an empty map
LayoutEmptyAux(w, s, h, r) == [window |-> w, scalars |-> EmptyScalars, health |-> h, remaining |-> r]

\* build_layout(...) pushed through live.update
Layout(w, s, h, r) == [window |-> w, scalars |-> s, health |-> h, remaining |-> r]
NoLayout == Layout(MetricWindow(<<>>, "<none>", <<>>), EmptyScalars,
                   _compute_health(EmptyScalars, <<>>), 0 - 1)
\* remaining_seconds=None
NoRemaining == 0 - 1

Init ==
    /\ refresh_hz = NoRate
    /\ byte_value = NoValue
    /\ formatted = NoFormatted
    /\ LAST_EXPORT = NoExport
    /\ USE_DARK_THEME = FALSE
    /\ choice = NoChoice
    /\ exported = <<>>
    /\ pc = "Entry"
    /\ outcome = "Running"
    /\ config \in Configs
    /\ environ \in Environs
    /\ platform \in Platforms
    /\ window = MetricWindow(<<>>, "<none>", <<>>)
    /\ scalars = EmptyScalars
    /\ last_refresh = NoRefresh
    /\ health = _compute_health(EmptyScalars, <<>>)
    /\ shown = NoLayout
    /\ now = 0
    /\ deadline = 0
    /\ remaining = 0
    /\ timeout = 0
    /\ key = None
    /\ exc = None
    /\ fetches = 0
    /\ cycleQueries = 0
    /\ waits = 0
    /\ printed = {}
    /\ lastQuery = NoQuery
    /\ waitBegan = 0
    /\ op = "none"
    /\ config_file = JsonDump(to_dict(config))
    /\ caller_config = config
    /\ argv = NoArgv

\* only None is rejected, an empty id passes
ResourceMissingNoneOnly(cfg) == cfg.distribution_id = None

\* line 642: if not config.distribution_id
ResourceMissing(cfg) == Falsy(cfg.distribution_id)

\* the requirement is checked on the configuration with the overrides applied
CheckAfterOverrides ==
    /\ UNCHANGED <<refresh_hz, byte_value, formatted, LAST_EXPORT, USE_DARK_THEME,
                   choice, exported>>
    /\ pc = "Entry"
    /\ IF ResourceMissing(_inject_overrides(config, environ))
       THEN /\ printed' = printed \cup {"No CloudFront distribution configured. Run wonder-dash setup first"}
            /\ outcome' = "SystemExit(1)"
            /\ pc' = "Terminated"
       ELSE /\ pc' = "CreateClient"
            /\ UNCHANGED <<printed, outcome>>
    /\ op' = "check"
    /\ UNCHANGED <<config_file, caller_config, argv>>
    /\ UNCHANGED <<config, environ, platform, window, scalars, last_refresh, health,
                   shown, now, deadline, remaining, timeout, key, exc, fetches,
                   cycleQueries, waits, lastQuery, waitBegan>>

\* lines 642-647: the resource-id requirement
CheckResource ==
    /\ UNCHANGED <<refresh_hz, byte_value, formatted, LAST_EXPORT, USE_DARK_THEME,
                   choice, exported>>
    /\ pc = "Entry"
    /\ IF ResourceMissing(config)
       THEN /\ printed' = printed \cup {"No CloudFront distribution configured. Run wonder-dash setup first"}
            /\ outcome' = "SystemExit(1)"
            /\ pc' = "Terminated"
       ELSE /\ pc' = "CreateClient"
            /\ UNCHANGED <<printed, outcome>>
    /\ op' = "check"
    /\ UNCHANGED <<config_file, caller_config, argv>>
    /\ UNCHANGED <<config, environ, platform, window, scalars, last_refresh, health,
                   shown, now, deadline, remaining, timeout, key, exc, fetches,
                   cycleQueries, waits, lastQuery, waitBegan>>

\* what boto3.Session(profile_name=...) / session.client(...) may raise
ClientFaults(cfg) ==
    {None} \cup (IF Falsy(cfg.aws_profile) THEN {} ELSE {"ProfileNotFound"})

\* lines 649-650: overrides, then the session and the client; outside any try
CreateClient ==
    /\ UNCHANGED <<refresh_hz, byte_value, formatted, LAST_EXPORT, USE_DARK_THEME,
                   choice, exported>>
    /\ pc = "CreateClient"
    /\ config' = _inject_overrides(config, environ)
    /\ \E e \in ClientFaults(config') :
         IF e = None
         THEN /\ pc' = "InitRender"
              /\ UNCHANGED <<outcome, exc>>
         ELSE /\ pc' = "Terminated"
              /\ outcome' = "Uncaught"
              /\ exc' = e
    /\ caller_config' = ArgumentAfterOverrides(caller_config, environ)
    /\ op' = "create"
    /\ UNCHANGED <<config_file, argv>>
    /\ UNCHANGED <<environ, platform, window, scalars, last_refresh, health, shown,
                   now, deadline, remaining, timeout, key, fetches, cycleQueries,
                   waits, printed, lastQuery, waitBegan>>

\* lines 651-675: the initial window, health and first paint
InitRender ==
    /\ refresh_hz' = RefreshHz(config.poll_seconds)
    /\ UNCHANGED <<byte_value, formatted, LAST_EXPORT, USE_DARK_THEME, choice, exported>>
    /\ pc = "InitRender"
    /\ window' = InitWindow(config)
    /\ last_refresh' = NoRefresh
    /\ scalars' = EmptyScalars
    /\ health' = _compute_health(scalars', window'.samples)
    /\ shown' = Layout(window', scalars', health', NoRemaining)
    /\ pc' = "Fetching"
    /\ op' = "render"
    /\ UNCHANGED <<config_file, caller_config, argv>>
    /\ UNCHANGED <<outcome, config, environ, platform, now, deadline, remaining,
                   timeout, key, exc, fetches, cycleQueries, waits, printed,
                   lastQuery, waitBegan>>

\* lines 680-687: one get_metric_data call through fetch_request_series
Fetch ==
    /\ UNCHANGED <<refresh_hz, byte_value, formatted, LAST_EXPORT, USE_DARK_THEME,
                   choice, exported>>
    /\ pc = "Fetching"
    /\ fetches < MaxCycles
    /\ \E q \in Queries :
         LET r == fetch_request_series(q, scalars)
         IN /\ lastQuery' = q
            /\ scalars' = r.scalars
            /\ IF r.raised = None
               THEN /\ window' = r.window
                    /\ last_refresh' = now
                    /\ pc' = "Rendering"
                    /\ exc' = None
               ELSE /\ exc' = r.raised
                    /\ pc' = "Handler"
                    /\ UNCHANGED <<window, last_refresh>>
    /\ fetches' = fetches + 1
    /\ cycleQueries' = cycleQueries + 1
    /\ op' = "query"
    /\ UNCHANGED <<config_file, caller_config, argv>>
    /\ UNCHANGED <<outcome, config, environ, platform, health, shown, now, deadline,
                   remaining, timeout, key, waits, printed, waitBegan>>

\* the generic clause is tried first
HandlerForGenericFirst(e) ==
    IF IsInstance(e, "ClientError") \/ IsInstance(e, "BotoCoreError") THEN "CloudWatchError"
    ELSE IF IsInstance(e, "ProfileNotFound") THEN "ProfileNotFound"
    ELSE IF IsInstance(e, "NoCredentialsError") THEN "NoCredentialsError"
    ELSE "unhandled"

\* lines 688, 697, 710: the first except clause that matches the fault
HandlerFor(e) ==
    IF IsInstance(e, "ProfileNotFound") THEN "ProfileNotFound"
    ELSE IF IsInstance(e, "NoCredentialsError") THEN "NoCredentialsError"
    ELSE IF IsInstance(e, "ClientError") \/ IsInstance(e, "BotoCoreError") THEN "CloudWatchError"
    ELSE "unhandled"

\* lines 688-718: the except clauses, tried in order (the console.log lines
\* of the handlers are not recorded in printed)
HandleFailure ==
    /\ UNCHANGED <<refresh_hz, byte_value, formatted, LAST_EXPORT, USE_DARK_THEME,
                   choice, exported>>
    /\ pc = "Handler"
    /\ IF HandlerFor(exc) = "ProfileNotFound"
       THEN /\ scalars' = EmptyScalars
            /\ window' = MetricWindow(<<>>, "CredentialsMissing",
                                      <<"AWS profile not found: " \o exc>>)
            /\ last_refresh' = now
            /\ pc' = "Rendering"
            /\ exc' = None
            /\ UNCHANGED outcome
       ELSE IF HandlerFor(exc) = "NoCredentialsError"
       THEN /\ scalars' = EmptyScalars
            /\ window' = MetricWindow(<<>>, "CredentialsMissing",
                            <<"AWS credentials not found.",
                              "Run aws configure or export AWS_ACCESS_KEY_ID / AWS_SECRET_ACCESS_KEY.",
                              exc>>)
            /\ last_refresh' = now
            /\ pc' = "Rendering"
            /\ exc' = None
            /\ UNCHANGED outcome
       ELSE IF HandlerFor(exc) = "CloudWatchError"
       THEN /\ scalars' = EmptyScalars
            /\ window' = MetricWindow(<<>>, "CloudWatchError", <<exc>>)
            /\ last_refresh' = now
            /\ pc' = "Rendering"
            /\ exc' = None
            /\ UNCHANGED outcome
       ELSE /\ pc' = "Terminated"
            /\ outcome' = "Uncaught"
            /\ UNCHANGED <<scalars, window, last_refresh, exc>>
    /\ op' = "handle"
    /\ UNCHANGED <<config_file, caller_config, argv>>
    /\ UNCHANGED <<printed, config, environ, platform, health, shown, now, deadline, remaining,
                   timeout, key, fetches, cycleQueries, waits, lastQuery, waitBegan>>

\* lines 720-733: health, header and the paint of the cycle
Render ==
    /\ UNCHANGED <<refresh_hz, byte_value, formatted, LAST_EXPORT, USE_DARK_THEME,
                   choice, exported>>
    /\ pc = "Rendering"
    /\ health' = _compute_health(scalars, window.samples)
    /\ shown' = Layout(window, scalars, health', NoRemaining)
    /\ pc' = "WaitStart"
    /\ op' = "render"
    /\ UNCHANGED <<config_file, caller_config, argv>>
    /\ UNCHANGED <<outcome, config, environ, platform, window, scalars, last_refresh,
                   now, deadline, remaining, timeout, key, exc, fetches, cycleQueries,
                   waits, printed, lastQuery, waitBegan>>

\* line 617: the deadline is fixed when the wait begins
WaitStart ==
    /\ UNCHANGED <<refresh_hz, byte_value, formatted, LAST_EXPORT, USE_DARK_THEME,
                   choice, exported>>
    /\ pc = "WaitStart"
    /\ deadline' = now + config.poll_seconds * TicksPerSecond
    /\ waitBegan' = now
    /\ pc' = "WaitCheck"
    /\ op' = "waitstart"
    /\ UNCHANGED <<config_file, caller_config, argv>>
    /\ UNCHANGED <<outcome, config, environ, platform, window, scalars, last_refresh,
                   health, shown, now, remaining, timeout, key, exc, fetches,
                   cycleQueries, waits, printed, lastQuery>>

\* the 0.5 s ceiling is forgotten
KeyTimeoutNoCeiling(r) == Max(MinTimeoutTicks, r)

\* min(0.5, max(0.05, remaining))
KeyTimeout(r) == Min(MaxTimeoutTicks, Max(MinTimeoutTicks, r))

\* the wait gives up half a second early
WaitExpiredEarly(r) == r <= MaxTimeoutTicks

\* line 620: if remaining <= 0: return False
WaitExpired(r) == r <= 0

\* lines 619-623: remaining time; return False (the locals of the wait are
\* dropped), or compute the timeout of the next key read
WaitCheck ==
    /\ UNCHANGED <<refresh_hz, byte_value, formatted, LAST_EXPORT, USE_DARK_THEME,
                   choice, exported>>
    /\ pc = "WaitCheck"
    /\ IF WaitExpired(deadline - now)
       THEN /\ pc' = "Fetching"
            /\ waits' = waits + 1
            /\ cycleQueries' = 0
            /\ deadline' = 0
            /\ remaining' = 0
            /\ timeout' = 0
            /\ waitBegan' = 0
       ELSE /\ pc' = "KeyRead"
            /\ remaining' = deadline - now
            /\ timeout' = KeyTimeout(remaining')
            /\ UNCHANGED <<waits, cycleQueries, deadline, waitBegan>>
    /\ key' = None
    /\ op' = "waitcheck"
    /\ UNCHANGED <<config_file, caller_config, argv>>
    /\ UNCHANGED <<outcome, config, environ, platform, window, scalars, last_refresh,
                   health, shown, now, exc, fetches, printed, lastQuery>>

\* the instants at which the msvcrt branch probes kbhit()
KbhitProbes(t) == {d \in 0..(t + KbhitSleepTicks) : d % KbhitSleepTicks = 0 /\ d < t}

\* the instants, within a select() of timeout t, at which a character arrives:
\* at once, after one tick, or just as the timeout expires
KeyArrivals(t) == {0, 1, t}

\* _read_single_key(timeout): the character read (or None) and the time spent
\*   select: a character as soon as one is readable, None at the timeout,
\*           None at once on OSError
\*   sleep:  no terminal: time.sleep(timeout), None
\*   msvcrt: kbhit() every 0.05 s until the end time has passed
_read_single_key(branch, t) ==
    CASE branch = "select" ->
           {[key |-> k, d |-> d] : k \in Keys, d \in KeyArrivals(t)}
           \cup {[key |-> None, d |-> t], [key |-> None, d |-> 0]}
      [] branch = "sleep" -> {[key |-> None, d |-> t]}
      [] OTHER ->
           {[key |-> k, d |-> d] : k \in Keys, d \in KbhitProbes(t)}
           \cup {[key |-> None,
                  d |-> CHOOSE d \in 0..(t + KbhitSleepTicks) :
                          d % KbhitSleepTicks = 0 /\ d >= t /\ d - KbhitSleepTicks < t]}

\* every key read that does not exit starts the poll interval afresh
KeyReadRearming ==
    /\ UNCHANGED <<refresh_hz, byte_value, formatted, LAST_EXPORT, USE_DARK_THEME,
                   choice, exported>>
    /\ pc = "KeyRead"
    /\ \E r \in _read_single_key(platform, timeout) :
         /\ now' = now + r.d
         /\ key' = r.key
         /\ IF ~Falsy(r.key) /\ r.key \in EXIT_KEYS
            THEN /\ pc' = "ExitRequested"
                 /\ op' = "keyread"
                 /\ deadline' = 0
                 /\ remaining' = 0
                 /\ timeout' = 0
                 /\ waitBegan' = 0
                 /\ UNCHANGED shown
            ELSE /\ pc' = "WaitCheck"
                 /\ op' = "render"
                 /\ shown' = Layout(window, scalars, health, remaining)
                 /\ deadline' = now' + config.poll_seconds * TicksPerSecond
                 /\ UNCHANGED <<remaining, timeout, waitBegan>>
    /\ UNCHANGED <<config_file, caller_config, argv>>
    /\ UNCHANGED <<outcome, config, environ, platform, window, scalars, last_refresh,
                   health, exc, fetches, cycleQueries, waits, printed, lastQuery>>

\* lines 623-638: one key read; an exit key returns True, anything else
\* repaints with the remaining time computed before the read
KeyRead ==
    /\ UNCHANGED <<refresh_hz, byte_value, formatted, LAST_EXPORT, USE_DARK_THEME,
                   choice, exported>>
    /\ pc = "KeyRead"
    /\ \E r \in _read_single_key(platform, timeout) :
         /\ now' = now + r.d
         /\ key' = r.key
         /\ IF ~Falsy(r.key) /\ r.key \in EXIT_KEYS
            THEN /\ pc' = "ExitRequested"
                 /\ op' = "keyread"
                 /\ deadline' = 0
                 /\ remaining' = 0
                 /\ timeout' = 0
                 /\ waitBegan' = 0
                 /\ UNCHANGED shown
            ELSE /\ pc' = "WaitCheck"
                 /\ op' = "render"
                 /\ shown' = Layout(window, scalars, health, remaining)
                 /\ UNCHANGED <<deadline, remaining, timeout, waitBegan>>
    /\ UNCHANGED <<config_file, caller_config, argv>>
    /\ UNCHANGED <<outcome, config, environ, platform, window, scalars, last_refresh,
                   health, exc, fetches, cycleQueries, waits, printed, lastQuery>>

\* lines 744-745: the wait returned True
ExitRequested ==
    /\ UNCHANGED <<refresh_hz, byte_value, formatted, LAST_EXPORT, USE_DARK_THEME,
                   choice, exported>>
    /\ pc = "ExitRequested"
    /\ printed' = printed \cup {"Exit requested (q)."}
    /\ outcome' = "ExitRequested"
    /\ pc' = "Terminated"
    /\ key' = None
    /\ op' = "exit"
    /\ UNCHANGED <<config_file, caller_config, argv>>
    /\ UNCHANGED <<config, environ, platform, window, scalars, last_refresh, health,
                   shown, now, deadline, remaining, timeout, exc, fetches,
                   cycleQueries, waits, lastQuery, waitBegan>>

\* the statements inside try: ... except KeyboardInterrupt (lines 677-746)
InTry(at) ==
    at \in {"Fetching", "Handler", "Rendering", "WaitStart", "WaitCheck", "KeyRead",
            "ExitRequested"}

\* SIGINT: KeyboardInterrupt raised at the current statement
Interrupt ==
    /\ UNCHANGED <<refresh_hz, byte_value, formatted, LAST_EXPORT, USE_DARK_THEME,
                   choice, exported>>
    /\ pc # "Terminated"
    /\ IF InTry(pc)
       THEN /\ printed' = printed \cup {"Shutting down WonderDash"}
            /\ outcome' = "Shutdown"
            /\ exc' = None
       ELSE /\ outcome' = "Uncaught"
            /\ exc' = "KeyboardInterrupt"
            /\ UNCHANGED printed
    /\ pc' = "Terminated"
    /\ op' = "interrupt"
    /\ deadline' = 0
    /\ remaining' = 0
    /\ timeout' = 0
    /\ key' = None
    /\ waitBegan' = 0
    /\ UNCHANGED <<config_file, caller_config, argv>>
    /\ UNCHANGED <<config, environ, platform, window, scalars, last_refresh, health,
                   shown, now, fetches, cycleQueries, waits, lastQuery>>

Next ==
    \/ CheckResource
    \/ CreateClient
    \/ InitRender
    \/ Fetch
    \/ HandleFailure
    \/ Render
    \/ WaitStart
    \/ WaitCheck
    \/ KeyRead
    \/ ExitRequested
    \/ Interrupt

Spec == Init /\ [][Next]_vars

\* the states of the loop as the design names them
Phase ==
    CASE pc \in {"Entry", "CreateClient", "InitRender"} -> "Idle"
      [] pc \in {"Fetching", "Handler"} -> "Fetching"
      [] pc = "Rendering" -> "Rendering"
      [] pc \in {"WaitStart", "WaitCheck", "KeyRead"} -> "Waiting"
      [] OTHER -> "Terminated"

TypeOK ==
    /\ pc \in {"Entry", "CreateClient", "InitRender", "Fetching", "Handler", "Rendering",
               "WaitStart", "WaitCheck", "KeyRead", "ExitRequested",
               "Terminated", "FetcherInput", "FetcherDone", "NormalizeInput",
               "Normalized", "NormalizedTwice", "Rejected", "FileInput", "Loaded",
               "Reloaded", "LoadFailed", "OverridesInput", "OverridesDone", "main",
               "cmd:setup", "cmd:dashboard", "cmd:show-config",
               "cmd:list-distributions", "run_setup", "HealthInput", "HealthDone"}
    /\ outcome \in {"Running", "SystemExit(1)", "SystemExit(2)", "ExitRequested",
                    "Shutdown", "Uncaught", "Returned"}
    /\ fetches \in 0..MaxCycles

\* ------------------------------------------- the fetcher on its own inputs
SeqsUpTo(S, n) == UNION {[1..k -> S] : k \in 0..n}

StampChoices == {Obj(n) : n \in 1..MaxStamp} \cup {Str("1970-01-01T00:00:01Z")}
ValueChoices == {Obj(5), Obj(7), Str("2")}

RequestResults ==
    {Result("requests", ts, vs, "Complete") :
        ts \in SeqsUpTo(StampChoices, MaxLen), vs \in SeqsUpTo(ValueChoices, MaxLen)}

\* a second batch for the primary series, and an auxiliary series that the
\* provider reports as complete or as failed
OtherResults ==
    {Result("requests", <<Obj(1)>>, <<Obj(9)>>, "PartialData"),
     Result("cache_hit", <<Obj(2)>>, <<Obj(900)>>, "Complete"),
     Result("cache_hit", <<Obj(2)>>, <<>>, "InternalError")}

FetcherQueries ==
    {QueryOk(<<r>>) : r \in RequestResults}
    \cup {QueryOk(<<r, o>>) : r \in RequestResults, o \in OtherResults}
    \cup {QueryOk(<<o, r>>) : r \in RequestResults, o \in OtherResults}
    \cup {QueryOk(<<>>), QueryFault("ClientError")}

\* the caller's dict before the call: empty, or holding an earlier poll
PriorScalars ==
    {EmptyScalars,
     [k \in {"availability"} |-> ScalarMetric("availability", <<1000>>, <<1>>)]}

InitFetcher ==
    /\ refresh_hz = NoRate
    /\ byte_value = NoValue
    /\ formatted = NoFormatted
    /\ LAST_EXPORT = NoExport
    /\ USE_DARK_THEME = FALSE
    /\ choice = NoChoice
    /\ exported = <<>>
    /\ pc = "FetcherInput"
    /\ outcome = "Running"
    /\ config = WonderConfig(None, "E1", "us-east-1", 300, 60, 1)
    /\ environ \in {e \in Environs : e.CF_DISTRIBUTION_ID = None /\ e.CF_PERIOD_SECONDS = None}
    /\ platform = "select"
    /\ window = MetricWindow(<<>>, "<none>", <<>>)
    /\ scalars \in PriorScalars
    /\ last_refresh = NoRefresh
    /\ health = _compute_health(EmptyScalars, <<>>)
    /\ shown = NoLayout
    /\ now = 0
    /\ deadline = 0
    /\ remaining = 0
    /\ timeout = 0
    /\ key = None
    /\ exc = None
    /\ fetches = 0
    /\ cycleQueries = 0
    /\ waits = 0
    /\ printed = {}
    /\ lastQuery \in FetcherQueries
    /\ waitBegan = 0
    /\ op = "none"
    /\ config_file = JsonDump(to_dict(config))
    /\ caller_config = config
    /\ argv = NoArgv

\* one call of fetch_request_series on the drawn response
FetcherCall ==
    /\ UNCHANGED <<refresh_hz, byte_value, formatted, LAST_EXPORT, USE_DARK_THEME,
                   choice, exported>>
    /\ pc = "FetcherInput"
    /\ LET r == fetch_request_series(lastQuery, scalars)
       IN /\ scalars' = r.scalars
          /\ exc' = r.raised
          /\ window' = IF r.raised = None THEN r.window ELSE window
    /\ pc' = "FetcherDone"
    /\ fetches' = fetches + 1
    /\ op' = "query"
    /\ UNCHANGED <<config_file, caller_config, argv>>
    /\ UNCHANGED <<outcome, config, environ, platform, last_refresh, health, shown,
                   now, deadline, remaining, timeout, key, cycleQueries, waits,
                   printed, lastQuery, waitBegan>>

NextFetcher == FetcherCall

SpecFetcher == InitFetcher /\ [][NextFetcher]_vars

\* ------------------------------------- the normalization on its own inputs
\* the loop's variables at rest, for the specifications that never enter it
LoopAtRest ==
    /\ outcome = "Running"
    /\ window = MetricWindow(<<>>, "<none>", <<>>)
    /\ scalars = EmptyScalars
    /\ last_refresh = NoRefresh
    /\ health = _compute_health(EmptyScalars, <<>>)
    /\ shown = NoLayout
    /\ now = 0
    /\ deadline = 0
    /\ remaining = 0
    /\ timeout = 0
    /\ key = None
    /\ exc = None
    /\ fetches = 0
    /\ cycleQueries = 0
    /\ waits = 0
    /\ printed = {}
    /\ lastQuery = NoQuery
    /\ waitBegan = 0
    /\ op = "none"

Periods == (0 - 2)..MaxPeriod

\* an environment without overrides
NoOverrides ==
    [CF_AWS_PROFILE |-> None, CF_DISTRIBUTION_ID |-> None, CF_CW_REGION |-> None,
     CF_PERIOD_SECONDS |-> None, CF_WINDOW_MINUTES |-> None, CF_POLL_SECONDS |-> None]

\* the records ensure_valid is called on
RawConfigs ==
    {WonderConfig(None, d, "us-east-1", p, w, s) :
        d \in IdTexts \cup {None}, p \in Periods, w \in {0, 60}, s \in {0 - 1, 30}}

InitNormalize ==
    /\ refresh_hz = NoRate
    /\ byte_value = NoValue
    /\ formatted = NoFormatted
    /\ LAST_EXPORT = NoExport
    /\ USE_DARK_THEME = FALSE
    /\ choice = NoChoice
    /\ exported = <<>>
    /\ pc = "NormalizeInput"
    /\ config \in RawConfigs
    /\ config_file = NoFile
    /\ caller_config = config
    /\ argv = NoArgv
    /\ environ = NoOverrides
    /\ platform = "select"
    /\ LoopAtRest

\* config.ensure_valid(), called once and then once more on the same record
EnsureValid ==
    /\ UNCHANGED <<refresh_hz, byte_value, formatted, LAST_EXPORT, USE_DARK_THEME,
                   choice, exported>>
    /\ pc \in {"NormalizeInput", "Normalized"}
    /\ LET v == ensure_valid(config)
       IN /\ config' = v.config
          /\ caller_config' = v.config
          /\ exc' = v.raised
          /\ pc' = IF v.raised # None THEN "Rejected"
                   ELSE IF pc = "NormalizeInput" THEN "Normalized" ELSE "NormalizedTwice"
    /\ op' = "ensure_valid"
    /\ UNCHANGED <<outcome, environ, platform, window, scalars, last_refresh, health,
                   shown, now, deadline, remaining, timeout, key, fetches,
                   cycleQueries, waits, printed, lastQuery, waitBegan, config_file, argv>>

NextNormalize == EnsureValid

SpecNormalize == InitNormalize /\ [][NextNormalize]_vars

\* ----------------------------------------- load_config on its own inputs
\* the values a file may hold for the resource id and for the period
FileIds == {Null} \cup {Str(t) : t \in IdTexts}
FilePeriods == {Obj(0), Obj(1), Obj(90), Obj(300), Str("300"), Str("abc"), Null}

\* files with the six fields, in dump order
FullFiles ==
    {JsonDump([to_dict(DefaultConfig) EXCEPT !.distribution_id = d, !.period_seconds = p]) :
        d \in FileIds, p \in FilePeriods}

\* an empty object, a lone field, an unknown field, a field given twice, and
\* the six normalized fields in another order
OddFiles ==
    {JsonFile(<<>>),
     JsonFile(<<Member("distribution_id", Str(" E1 "))>>),
     JsonFile(<<Member("theme", Str("dark"))>> \o JsonDump(to_dict(DefaultConfig)).members),
     JsonFile(<<Member("period_seconds", Obj(90)), Member("period_seconds", Obj(1))>>),
     JsonFile(<<Member("window_minutes", Obj(60)), Member("region", Str("us-east-1")),
                Member("poll_seconds", Obj(30)), Member("period_seconds", Obj(300)),
                Member("distribution_id", Str("E1")), Member("aws_profile", Null)>>)}

ConfigFiles == {NoFile, BadJson, NotAnObject} \cup FullFiles \cup OddFiles

InitFile ==
    /\ refresh_hz = NoRate
    /\ byte_value = NoValue
    /\ formatted = NoFormatted
    /\ LAST_EXPORT = NoExport
    /\ USE_DARK_THEME = FALSE
    /\ choice = NoChoice
    /\ exported = <<>>
    /\ pc = "FileInput"
    /\ config = DefaultConfig
    /\ config_file \in ConfigFiles
    /\ caller_config = config
    /\ argv = NoArgv
    /\ environ = NoOverrides
    /\ platform = "select"
    /\ LoopAtRest

\* load_config(), called once and then once more
LoadConfig ==
    /\ UNCHANGED <<refresh_hz, byte_value, formatted, LAST_EXPORT, USE_DARK_THEME,
                   choice, exported>>
    /\ pc \in {"FileInput", "Loaded"}
    /\ LET r == load_config(config_file)
       IN /\ config_file' = r.file
          /\ exc' = r.raised
          /\ config' = IF r.raised = None THEN r.config ELSE config
          /\ caller_config' = config'
          /\ pc' = IF r.raised # None THEN "LoadFailed"
                   ELSE IF pc = "FileInput" THEN "Loaded" ELSE "Reloaded"
          /\ op' = IF r.wrote THEN "load_save" ELSE "load"
    /\ UNCHANGED <<outcome, environ, platform, window, scalars, last_refresh, health,
                   shown, now, deadline, remaining, timeout, key, fetches,
                   cycleQueries, waits, printed, lastQuery, waitBegan, argv>>

NextFile == LoadConfig

SpecFile == InitFile /\ [][NextFile]_vars

\* ------------------------------------ _inject_overrides on its own inputs
\* os.getenv of a text setting: unset, empty, or a value
TextOverrides == {None, "", "E2"}
\* os.getenv of a numeric setting
IntOverrides == {None, "", "abc", "0", "-5", "2", "90"}

OverrideEnvirons ==
    {[CF_AWS_PROFILE |-> a, CF_DISTRIBUTION_ID |-> d, CF_CW_REGION |-> r,
      CF_PERIOD_SECONDS |-> p, CF_WINDOW_MINUTES |-> w, CF_POLL_SECONDS |-> s] :
        a \in TextOverrides, d \in TextOverrides, r \in TextOverrides,
        p \in IntOverrides, w \in IntOverrides, s \in IntOverrides}

\* persisted records: the defaults, and one with every field set
OverrideConfigs == {DefaultConfig, WonderConfig("prod", "E1", "eu-west-1", 120, 15, 5)}

InitOverrides ==
    /\ refresh_hz = NoRate
    /\ byte_value = NoValue
    /\ formatted = NoFormatted
    /\ LAST_EXPORT = NoExport
    /\ USE_DARK_THEME = FALSE
    /\ choice = NoChoice
    /\ exported = <<>>
    /\ pc = "OverridesInput"
    /\ config \in OverrideConfigs
    /\ environ \in OverrideEnvirons
    /\ config_file = JsonDump(to_dict(config))
    /\ caller_config = config
    /\ argv = NoArgv
    /\ platform = "select"
    /\ LoopAtRest

\* line 649: config = _inject_overrides(config)
InjectOverrides ==
    /\ UNCHANGED <<refresh_hz, byte_value, formatted, LAST_EXPORT, USE_DARK_THEME,
                   choice, exported>>
    /\ pc = "OverridesInput"
    /\ config' = _inject_overrides(config, environ)
    /\ pc' = "OverridesDone"
    /\ op' = "overrides"
    /\ UNCHANGED <<outcome, environ, platform, window, scalars, last_refresh, health,
                   shown, now, deadline, remaining, timeout, key, exc, fetches,
                   cycleQueries, waits, printed, lastQuery, waitBegan, config_file,
                   caller_config, argv>>

NextOverrides == InjectOverrides

SpecOverrides == InitOverrides /\ [][NextOverrides]_vars

\* -------------------------------------------------------- the setup wizard
\* _prompt(message, default): input(...).strip() or (default or "")
Prompt(typed, default) ==
    IF Strip(Ord(typed)) # <<>> THEN Text(Strip(Ord(typed))) ELSE OrElse(default, "")

\* _clean_ascii(value)
_clean_ascii(value) == Text(Printable(Ord(value)))

\* _prompt_int: the number an answer stands for (an empty answer is the
\* default), and whether the answer ends the prompt loop
PromptInt(typed, default) == IF Strip(Ord(typed)) = <<>> THEN default ELSE IntOf(typed).n
PromptIntAccepted(typed, default, min_value) ==
    /\ Strip(Ord(typed)) # <<>> => IntOf(typed).ok
    /\ PromptInt(typed, default) >= min_value

\* what boto3.Session(...) and sts.get_caller_identity() may raise
ProbeFaults(profile) ==
    {None, "NoCredentialsError", "ClientError", "EndpointConnectionError"}
    \cup (IF Falsy(profile) THEN {} ELSE {"ProfileNotFound"})

\* what paginating list_distributions may raise, or the ids it returns
ListOutcomes ==
    {[fault |-> f, ids |-> <<>>] : f \in {"ClientError", "EndpointConnectionError"}}
    \cup {[fault |-> None, ids |-> l] : l \in {<<>>, <<"E1", "E2">>}}

\* only ClientError is caught around the listing
ListingCaughtClientOnly(e) == IsInstance(e, "ClientError")

\* line 93: except (BotoCoreError, ClientError)
ListingCaught(e) == IsInstance(e, "BotoCoreError") \/ IsInstance(e, "ClientError")

\* lines 84-89: the message printed before the probe fault is re-raised
ProbeMessage(e) ==
    IF IsInstance(e, "NoCredentialsError") \/ IsInstance(e, "ProfileNotFound")
    THEN "Unable to locate credentials. Ensure aws configure has been run."
    ELSE "Error validating credentials: " \o e

\* the answers typed at the prompts of one run of the wizard
ProfileAnswers == {"", "ghost"}
IdAnswers == {"", "E2", " E1 ", "<e9>E1", "<01> E1", "   "}
PeriodAnswers == {"", "90"}
PollAnswers == {"", "2"}

\* lines 97-143: the prompts that follow the listing, with the answers that
\* end each prompt loop, then ensure_valid and save_config
SetupPrompts(cfg, file, profile, ids, selected, typedId, typedPeriod, typedPoll) ==
    LET shownId == IF selected = 0 THEN OrElse(cfg.distribution_id, "") ELSE ids[selected]
        distribution_id == _clean_ascii(Prompt(typedId, shownId))
        region == Prompt("", cfg.region)
        period_seconds == WizardRound(PromptInt(typedPeriod, cfg.period_seconds))
        window_minutes == PromptInt("", cfg.window_minutes)
        poll_seconds == PromptInt(typedPoll, cfg.poll_seconds)
        edited == WonderConfig(IF Falsy(profile) THEN None ELSE profile, distribution_id,
                               region, period_seconds, window_minutes, poll_seconds)
        valid == ensure_valid(edited)
    IN IF valid.raised # None
       THEN [raised |-> valid.raised, config |-> valid.config, file |-> file]
       ELSE save_config(valid.config, file)

\* the answers under which every prompt loop of lines 116-131 ends
AnswersAccepted(cfg, ids, selected, typedId, typedPeriod, typedPoll) ==
    /\ _clean_ascii(Prompt(typedId, IF selected = 0 THEN OrElse(cfg.distribution_id, "")
                                    ELSE ids[selected])) # ""
    /\ PromptIntAccepted(typedPeriod, cfg.period_seconds, 60)
    /\ PromptIntAccepted("", cfg.window_minutes, 1)
    /\ PromptIntAccepted(typedPoll, cfg.poll_seconds, 1)

\* ------------------------------------------------------- the command line
Commands == {"setup", "dashboard", "show-config", "list-distributions"}

\* sys.argv[1:]: no word, a subcommand, or a word that is no subcommand
Argvs == Commands \cup {"", "bogus"}

\* parser.parse_args: the handler set by the subparser (None without a
\* subcommand), or the exit status of parser.error for an invalid choice
ParseArgs(words) ==
    IF words \in Commands THEN [exit |-> 0, func |-> "cmd:" \o words]
    ELSE IF words = "" THEN [exit |-> 0, func |-> None]
    ELSE [exit |-> 2, func |-> None]

UsageText == "usage: wonder-dash [-h] {setup,dashboard,show-config,list-distributions} ..."

\* the files a command may find at the config path
CliFiles ==
    {NoFile, BadJson,
     JsonDump(to_dict(WonderConfig(None, "E1", "us-east-1", 300, 60, 1))),
     JsonDump(to_dict(WonderConfig("ghost", " E1 ", "us-east-1", 90, 60, 1))),
     JsonDump([to_dict(DefaultConfig) EXCEPT !.poll_seconds = Null])}

InitCli ==
    /\ refresh_hz = NoRate
    /\ byte_value = NoValue
    /\ formatted = NoFormatted
    /\ LAST_EXPORT = NoExport
    /\ USE_DARK_THEME = FALSE
    /\ choice = NoChoice
    /\ exported = <<>>
    /\ pc = "main"
    /\ argv \in Argvs
    /\ config_file \in CliFiles
    /\ environ \in {e \in Environs : e.CF_DISTRIBUTION_ID = None}
    /\ platform = "select"
    /\ config = DefaultConfig
    /\ caller_config = config
    /\ LoopAtRest

\* main(): parse the arguments and pick the handler (lines 110-115)
Main ==
    /\ UNCHANGED <<refresh_hz, byte_value, formatted, LAST_EXPORT, USE_DARK_THEME,
                   choice, exported>>
    /\ pc = "main"
    /\ LET args == ParseArgs(argv)
       IN IF args.exit # 0
          THEN /\ printed' = printed \cup {UsageText, "wonder-dash: error: argument command: invalid choice"}
               /\ outcome' = "SystemExit(2)"
               /\ pc' = "Terminated"
          ELSE IF args.func = None
          THEN /\ printed' = printed \cup {UsageText}
               /\ outcome' = "SystemExit(1)"
               /\ pc' = "Terminated"
          ELSE /\ pc' = args.func
               /\ UNCHANGED <<printed, outcome>>
    /\ op' = "main"
    /\ UNCHANGED <<config, environ, platform, window, scalars, last_refresh, health,
                   shown, now, deadline, remaining, timeout, key, exc, fetches,
                   cycleQueries, waits, lastQuery, waitBegan, config_file,
                   caller_config, argv>>

\* cmd_setup up to the call of run_setup: a RuntimeError of load_config is
\* swallowed, and run_setup starts from existing or WonderConfig()
CmdSetup ==
    /\ UNCHANGED <<refresh_hz, byte_value, formatted, LAST_EXPORT, USE_DARK_THEME,
                   choice, exported>>
    /\ pc = "cmd:setup"
    /\ LET r == load_config(config_file)
       IN /\ config_file' = r.file
          /\ IF r.raised \notin {None, "RuntimeError"}
             THEN /\ exc' = r.raised
                  /\ outcome' = "Uncaught"
                  /\ pc' = "Terminated"
                  /\ UNCHANGED config
             ELSE /\ config' = IF r.raised = None THEN r.config ELSE DefaultConfig
                  /\ pc' = "run_setup"
                  /\ UNCHANGED <<exc, outcome>>
    /\ caller_config' = config'
    /\ op' = "cmd_setup"
    /\ UNCHANGED <<environ, platform, window, scalars, last_refresh, health, shown,
                   now, deadline, remaining, timeout, key, fetches, cycleQueries,
                   waits, printed, lastQuery, waitBegan, argv>>

\* run_setup(existing): the profile prompt and the credential probe, which
\* re-raises its fault; the listing, whose fault is reported and dropped;
\* the remaining prompts, ensure_valid and save_config
RunSetup ==
    /\ UNCHANGED <<refresh_hz, byte_value, formatted, LAST_EXPORT, USE_DARK_THEME,
                   choice, exported>>
    /\ pc = "run_setup"
    /\ \E typedProfile \in ProfileAnswers :
         LET profile == Prompt(typedProfile, config.aws_profile)
         IN \E fault \in ProbeFaults(profile) :
              IF fault # None
              THEN /\ printed' = printed \cup {ProbeMessage(fault)}
                   /\ exc' = fault
                   /\ outcome' = "Uncaught"
                   /\ UNCHANGED <<config, config_file>>
              ELSE \E listing \in ListOutcomes :
                     IF listing.fault # None /\ ~ListingCaught(listing.fault)
                     THEN /\ exc' = listing.fault
                          /\ outcome' = "Uncaught"
                          /\ UNCHANGED <<config, config_file, printed>>
                     ELSE \E selected \in 0..Len(listing.ids), typedId \in IdAnswers,
                             typedPeriod \in PeriodAnswers, typedPoll \in PollAnswers :
                            /\ AnswersAccepted(config, listing.ids, selected, typedId,
                                               typedPeriod, typedPoll)
                            /\ LET saved == SetupPrompts(config, config_file, profile,
                                                         listing.ids, selected, typedId,
                                                         typedPeriod, typedPoll)
                               IN /\ config' = saved.config
                                  /\ config_file' = saved.file
                                  /\ exc' = saved.raised
                                  /\ outcome' = IF saved.raised = None THEN "Returned"
                                                ELSE "Uncaught"
                                  /\ printed' =
                                       printed
                                       \cup (IF listing.fault = None THEN {}
                                             ELSE {"Unable to list CloudFront distributions: "
                                                   \o listing.fault})
                                       \cup (IF saved.raised = None
                                             THEN {"Configuration saved"} ELSE {})
    /\ caller_config' = config'
    /\ pc' = "Terminated"
    /\ op' = "run_setup"
    /\ UNCHANGED <<environ, platform, window, scalars, last_refresh, health, shown,
                   now, deadline, remaining, timeout, key, fetches, cycleQueries,
                   waits, lastQuery, waitBegan, argv>>

\* cmd_dashboard: load_config outside any try, then run_dashboard(config)
CmdDashboard ==
    /\ UNCHANGED <<refresh_hz, byte_value, formatted, LAST_EXPORT, USE_DARK_THEME,
                   choice, exported>>
    /\ pc = "cmd:dashboard"
    /\ LET r == load_config(config_file)
       IN /\ config_file' = r.file
          /\ IF r.raised # None
             THEN /\ exc' = r.raised
                  /\ outcome' = "Uncaught"
                  /\ pc' = "Terminated"
                  /\ UNCHANGED config
             ELSE /\ config' = r.config
                  /\ pc' = "Entry"
                  /\ UNCHANGED <<exc, outcome>>
    /\ caller_config' = config'
    /\ op' = "cmd_dashboard"
    /\ UNCHANGED <<environ, platform, window, scalars, last_refresh, health, shown,
                   now, deadline, remaining, timeout, key, fetches, cycleQueries,
                   waits, printed, lastQuery, waitBegan, argv>>

\* cmd_show_config: a RuntimeError of load_config becomes SystemExit(1)
CmdShowConfig ==
    /\ UNCHANGED <<refresh_hz, byte_value, formatted, LAST_EXPORT, USE_DARK_THEME,
                   choice, exported>>
    /\ pc = "cmd:show-config"
    /\ LET r == load_config(config_file)
       IN /\ config_file' = r.file
          /\ IF r.raised = "RuntimeError"
             THEN /\ printed' = printed \cup {"Failed to read config"}
                  /\ outcome' = "SystemExit(1)"
                  /\ UNCHANGED <<config, exc, shown>>
             ELSE IF r.raised # None
             THEN /\ exc' = r.raised
                  /\ outcome' = "Uncaught"
                  /\ UNCHANGED <<config, printed, shown>>
             ELSE /\ config' = r.config
                  /\ printed' = printed \cup {"Config path"}
                  /\ shown' = JsonDump(to_dict(r.config))
                  /\ outcome' = "Returned"
                  /\ UNCHANGED exc
    /\ caller_config' = config'
    /\ pc' = "Terminated"
    /\ op' = "cmd_show_config"
    /\ UNCHANGED <<environ, platform, window, scalars, last_refresh, health,
                   now, deadline, remaining, timeout, key, fetches, cycleQueries,
                   waits, lastQuery, waitBegan, argv>>

\* cmd_list_distributions: load_config outside the try; every SDK fault of
\* the session or the listing becomes SystemExit(1)
CmdListDistributions ==
    /\ UNCHANGED <<refresh_hz, byte_value, formatted, LAST_EXPORT, USE_DARK_THEME,
                   choice, exported>>
    /\ pc = "cmd:list-distributions"
    /\ LET r == load_config(config_file)
       IN /\ config_file' = r.file
          /\ IF r.raised # None
             THEN /\ exc' = r.raised
                  /\ outcome' = "Uncaught"
                  /\ UNCHANGED <<config, printed>>
             ELSE /\ config' = r.config
                  /\ \E fault \in ProbeFaults(r.config.aws_profile) :
                       IF fault = None
                       THEN /\ outcome' = "Returned"
                            /\ UNCHANGED <<exc, printed>>
                       ELSE IF IsInstance(fault, "ProfileNotFound")
                               \/ IsInstance(fault, "NoCredentialsError")
                       THEN /\ printed' = printed \cup {"Unable to locate AWS credentials/profile. Run aws configure."}
                            /\ outcome' = "SystemExit(1)"
                            /\ UNCHANGED exc
                       ELSE IF IsInstance(fault, "BotoCoreError") \/ IsInstance(fault, "ClientError")
                       THEN /\ printed' = printed \cup {"Error listing distributions: " \o fault}
                            /\ outcome' = "SystemExit(1)"
                            /\ UNCHANGED exc
                       ELSE /\ exc' = fault
                            /\ outcome' = "Uncaught"
                            /\ UNCHANGED printed
    /\ caller_config' = config'
    /\ pc' = "Terminated"
    /\ op' = "cmd_list_distributions"
    /\ UNCHANGED <<environ, platform, window, scalars, last_refresh, health, shown,
                   now, deadline, remaining, timeout, key, fetches, cycleQueries,
                   waits, lastQuery, waitBegan, argv>>

NextCli ==
    \/ Main
    \/ CmdSetup
    \/ RunSetup
    \/ CmdDashboard
    \/ CmdShowConfig
    \/ CmdListDistributions
    \/ Next

SpecCli == InitCli /\ [][NextCli]_vars

\* --------------------------------------- _compute_health on its own inputs
\* a series of the scalars dict: absent, or present with these values
Series(present, values) == [present |-> present, values |-> values]

AvailabilityChoices ==
    {Series(FALSE, <<>>), Series(TRUE, <<>>), Series(TRUE, <<979>>), Series(TRUE, <<980>>),
     Series(TRUE, <<990>>), Series(TRUE, <<994>>), Series(TRUE, <<995>>),
     Series(TRUE, <<979, 1000>>), Series(TRUE, <<1000, 979>>)}

ErrorChoices ==
    {Series(FALSE, <<>>), Series(TRUE, <<>>), Series(TRUE, <<5>>), Series(TRUE, <<10>>),
     Series(TRUE, <<11>>), Series(TRUE, <<50>>), Series(TRUE, <<51>>)}

LatencyChoices ==
    {Series(FALSE, <<>>), Series(TRUE, <<>>), Series(TRUE, <<1000>>), Series(TRUE, <<2500>>),
     Series(TRUE, <<2501>>), Series(TRUE, <<4000>>), Series(TRUE, <<4001>>)}

\* the scalars dict holding the chosen series
HealthMetrics(a, e, l) ==
    LET chosen == [k \in {"availability", "total_errors", "origin_latency"} |->
                      CASE k = "availability" -> a
                        [] k = "total_errors" -> e
                        [] OTHER -> l]
    IN [k \in {j \in DOMAIN chosen : chosen[j].present} |->
           ScalarMetric(k, chosen[k].values, [i \in 1..Len(chosen[k].values) |-> i])]

InitHealth ==
    /\ refresh_hz = NoRate
    /\ byte_value = NoValue
    /\ formatted = NoFormatted
    /\ LAST_EXPORT = NoExport
    /\ USE_DARK_THEME = FALSE
    /\ choice = NoChoice
    /\ exported = <<>>
    /\ pc = "HealthInput"
    /\ scalars \in {HealthMetrics(a, e, l) :
                      a \in AvailabilityChoices, e \in ErrorChoices, l \in LatencyChoices}
    /\ window \in {MetricWindow(<<>>, "Complete", <<>>),
                   MetricWindow(<<MetricSample(1, 5)>>, "Complete", <<>>)}
    /\ config = DefaultConfig
    /\ config_file = NoFile
    /\ caller_config = config
    /\ argv = NoArgv
    /\ environ = NoOverrides
    /\ platform = "select"
    /\ outcome = "Running"
    /\ last_refresh = NoRefresh
    /\ health = _compute_health(EmptyScalars, <<>>)
    /\ shown = NoLayout
    /\ now = 0
    /\ deadline = 0
    /\ remaining = 0
    /\ timeout = 0
    /\ key = None
    /\ exc = None
    /\ fetches = 0
    /\ cycleQueries = 0
    /\ waits = 0
    /\ printed = {}
    /\ lastQuery = NoQuery
    /\ waitBegan = 0
    /\ op = "none"

\* line 720: health = _compute_health(scalars, window.samples)
ComputeHealth ==
    /\ UNCHANGED <<refresh_hz, byte_value, formatted, LAST_EXPORT, USE_DARK_THEME,
                   choice, exported>>
    /\ pc = "HealthInput"
    /\ health' = _compute_health(scalars, window.samples)
    /\ pc' = "HealthDone"
    /\ op' = "health"
    /\ UNCHANGED <<outcome, config, environ, platform, window, scalars, last_refresh,
                   shown, now, deadline, remaining, timeout, key, exc, fetches,
                   cycleQueries, waits, printed, lastQuery, waitBegan, config_file,
                   caller_config, argv>>

NextHealth == ComputeHealth

SpecHealth == InitHealth /\ [][NextHealth]_vars

\* ================================================================ properties

PollTicks == config.poll_seconds * TicksPerSecond

AllowedPhaseStep(a, b) ==
    \/ a = b
    \/ b = "Terminated"
    \/ <<a, b>> \in {<<"Idle", "Fetching">>, <<"Fetching", "Rendering">>,
                     <<"Rendering", "Waiting">>, <<"Waiting", "Fetching">>}

\* C1: the loop only moves Idle -> Fetching -> Rendering -> Waiting -> Fetching
\* or to Terminated; the wait is entered from Rendering by a render, Fetching
\* is re-entered only when the whole poll interval has elapsed, and every
\* cycle issues exactly one query.
C1_LoopOrder ==
    [][ /\ AllowedPhaseStep(Phase, Phase')
        /\ (Phase = "Fetching" /\ Phase' = "Fetching") => (pc = "Fetching" /\ pc' = "Handler")
        /\ op' = "query" => (pc = "Fetching" /\ cycleQueries = 0 /\ cycleQueries' = 1)
        /\ (Phase = "Rendering" /\ Phase' = "Waiting") => op' = "render"
        /\ (Phase = "Waiting" /\ Phase' = "Fetching") =>
              (now >= waitBegan + PollTicks /\ waits' = waits + 1)
        /\ Phase' \in {"Rendering", "Waiting"} => cycleQueries' = 1
        /\ fetches' <= waits' + 1
      ]_vars

C1_Witness == fetches = 2 /\ waits = 1 /\ pc = "Rendering"

\* the status the design assigns to each classified failure kind
FailureStatus(q) ==
    CASE q.fault \in {"ProfileNotFound", "NoCredentialsError"} -> "CredentialsMissing"
      [] q.fault \in {"ClientError", "EndpointConnectionError"} -> "CloudWatchError"
      [] q.fault = None /\ q.results = <<>> -> "NoData"
      [] OTHER -> "none"

\* C2: after a fetch that failed in one of the four classified ways, the
\* window shown and waited on has no samples, carries the status of that
\* failure kind, and the auxiliary map is empty.
C2_FailureWindow ==
    (Phase \in {"Rendering", "Waiting"} /\ FailureStatus(lastQuery) # "none") =>
        /\ window.samples = <<>>
        /\ window.status = FailureStatus(lastQuery)
        /\ window.status # "Unknown"
        /\ scalars = EmptyScalars

C2_Witness ==
    pc = "Rendering" /\ lastQuery.fault = "ProfileNotFound" /\ fetches = 2
    /\ window.status = "CredentialsMissing"

\* C3: no fault met while obtaining metrics ends the run: an uncaught fault
\* can only be a keyboard interrupt.
C3_NoFetchFaultEndsLoop == outcome = "Uncaught" => exc = "KeyboardInterrupt"

\* C4 (as stated): a failed query call never escapes fetch_request_series.
C4_FetcherNeverRaises == (op = "query" /\ lastQuery.fault # None) => exc = None

\* C4 (amended): a failed query call escapes fetch_request_series unchanged,
\* no window is returned and the auxiliary map is untouched; the except
\* clauses of the loop then turn the four SDK faults into an empty window
\* whose status and messages describe the fault.
C4_FaultEscapesToLoop ==
    [][ /\ (op' = "query" /\ lastQuery'.fault # None) =>
              (pc' = "Handler" /\ exc' = lastQuery'.fault
               /\ window' = window /\ scalars' = scalars)
        /\ (op' = "handle" /\ exc \in {"ProfileNotFound", "NoCredentialsError",
                                       "ClientError", "EndpointConnectionError"}) =>
              (pc' = "Rendering" /\ window'.samples = <<>>
               /\ window'.status \in {"CredentialsMissing", "CloudWatchError"}
               /\ \E i \in 1..Len(window'.messages) :
                     window'.messages[i] \in {exc, "AWS profile not found: " \o exc})
      ]_vars

C4_Witness == pc = "Handler" /\ exc = "ClientError" /\ lastQuery.fault = "ClientError"

\* C5: the wait returns "no time remaining" no earlier than poll_seconds after
\* it began and no later than poll_seconds plus the timeout of its last key
\* read, and every key-read timeout lies between 0.05 s and 0.5 s.
C5_WaitBound ==
    [][ /\ (pc = "WaitCheck" /\ pc' = "Fetching") =>
              (now >= waitBegan + PollTicks /\ now <= waitBegan + PollTicks + timeout)
        /\ pc' = "KeyRead" => (timeout' >= MinTimeoutTicks /\ timeout' <= MaxTimeoutTicks)
      ]_vars

\* the wait is about to return after overshooting its deadline
C5_Witness == pc = "WaitCheck" /\ deadline > 0 /\ now > deadline /\ timeout = MinTimeoutTicks

\* C6: a key read returning q or Q leaves the wait for Terminated without
\* another fetch or render; any other key, or none, repaints with the
\* remaining time and returns to the remaining-time check; nothing is
\* fetched or rendered once the loop has terminated.
C6_ExitKey ==
    [][ /\ (pc = "KeyRead" /\ op' # "interrupt") =>
              IF key' \in {"q", "Q"}
              THEN pc' = "ExitRequested" /\ shown' = shown /\ fetches' = fetches
              ELSE pc' = "WaitCheck" /\ op' = "render" /\ shown'.remaining = remaining
        /\ (pc = "WaitCheck" /\ op' # "interrupt") => op' = "waitcheck"
        /\ Phase = "Terminated" =>
              (Phase' = "Terminated" /\ op' \notin {"query", "render"}
               /\ fetches' = fetches /\ shown' = shown)
      ]_vars

C6_Witness == pc = "Terminated" /\ outcome = "ExitRequested" /\ fetches = 2

\* C7: a keyboard interrupt delivered anywhere after the resource-id check
\* ends the run with the shutdown message.
C7_InterruptGraceful ==
    [][ (op' = "interrupt" /\ pc # "Entry") =>
            (outcome' = "Shutdown" /\ "Shutting down WonderDash" \in printed') ]_vars

\* the exit status of the process for each way the run ends
ExitCode(o) ==
    IF o = "SystemExit(2)" THEN 2
    ELSE IF o \in {"SystemExit(1)", "Uncaught"} THEN 1 ELSE 0

\* C8: with no resource id configured the run ends at the check with exit
\* code 1 and the run-setup instruction, and nothing was created, fetched
\* or rendered.
C8_NoResourceExit ==
    Falsy(config.distribution_id) =>
        /\ pc \in {"Entry", "Terminated"}
        /\ op \in {"none", "check", "interrupt"}
        /\ fetches = 0
        /\ shown = NoLayout
        /\ op = "check" =>
              /\ pc = "Terminated"
              /\ ExitCode(outcome) = 1
              /\ outcome = "SystemExit(1)"
              /\ "No CloudFront distribution configured. Run wonder-dash setup first" \in printed

C8_Witness ==
    pc = "Terminated" /\ outcome = "SystemExit(1)" /\ config.distribution_id = ""
    /\ environ.CF_DISTRIBUTION_ID = "E2"

\* the auxiliary series of a response, by what the response holds
AuxIds(q) ==
    {q.results[i].Id : i \in 1..Len(q.results)} \cap (MetricSpecKeys \ {"requests"})

LastResultFor(q, k) ==
    q.results[CHOOSE i \in 1..Len(q.results) :
                 /\ q.results[i].Id = k
                 /\ \A j \in (i + 1)..Len(q.results) : q.results[j].Id # k]

ReturnedAux(q) ==
    IF q.fault # None THEN EmptyScalars
    ELSE [k \in AuxIds(q) |->
            [unit |-> MetricUnit(k),
             values |-> [i \in 1..Len(LastResultFor(q, k).Values) |->
                            FloatOf(LastResultFor(q, k).Values[i]).n],
             timestamps |-> [i \in 1..Len(LastResultFor(q, k).Timestamps) |->
                            StampOf(LastResultFor(q, k).Timestamps[i]).n]]]

\* C9: once a fetch attempt has been handled, the auxiliary map holds exactly
\* the auxiliary series of that attempt's response (none for a failure or an
\* empty response), whatever earlier polls returned.
C9_AuxReplaced ==
    Phase \in {"Rendering", "Waiting"} => scalars = ReturnedAux(lastQuery)

C9_Witness == pc = "Rendering" /\ fetches = 2 /\ DOMAIN scalars = {"origin_latency"}

\* the (timestamp, value) pairs a response returns for the primary series
PairIndex(q) ==
    {ji \in (1..Len(q.results)) \X (1..MaxLen) :
        /\ q.results[ji[1]].Id = "requests"
        /\ ji[2] <= Len(q.results[ji[1]].Timestamps)
        /\ ji[2] <= Len(q.results[ji[1]].Values)}

PairAt(q, ji) ==
    [timestamp |-> StampOf(q.results[ji[1]].Timestamps[ji[2]]).n,
     value |-> FloatOf(q.results[ji[1]].Values[ji[2]]).n]

Occurrences(seq, x) == Cardinality({i \in 1..Len(seq) : seq[i] = x})

\* C10: the samples of the returned window are non-decreasing by timestamp
\* and are a permutation of the pairs returned for the primary series.
C10_SamplesSorted ==
    (pc = "FetcherDone" /\ exc = None) =>
        /\ \A i \in 1..(Len(window.samples) - 1) :
              window.samples[i].timestamp <= window.samples[i + 1].timestamp
        /\ Len(window.samples) = Cardinality(PairIndex(lastQuery))
        /\ \A ji \in PairIndex(lastQuery) :
              Occurrences(window.samples, PairAt(lastQuery, ji)) =
              Cardinality({kl \in PairIndex(lastQuery) :
                              PairAt(lastQuery, kl) = PairAt(lastQuery, ji)})

\* a response whose primary datapoints arrive newest first
C10_Witness ==
    /\ pc = "FetcherDone" /\ exc = None
    /\ Len(window.samples) = 3
    /\ lastQuery.results[1].Timestamps = <<Obj(2), Obj(1)>>
    /\ window.samples[1].timestamp = 1

\* C11: applying ensure_valid to a record it has just accepted changes
\* nothing and raises nothing.
C11_Idempotent ==
    [][(pc = "Normalized" /\ op' = "ensure_valid") => (exc' = None /\ config' = config)]_vars

\* C12: ensure_valid turns a positive period p of an accepted record into
\* the smallest multiple of 60 that is >= p (the value the wizard computes
\* for p >= 60); a period <= 0 raises ValueError and leaves the record as
\* it was.
C12_PeriodRounded ==
    [][(pc = "NormalizeInput" /\ op' = "ensure_valid") =>
          /\ config.period_seconds <= 0 => (exc' = "ValueError" /\ config' = config)
          /\ (config.period_seconds > 0 /\ config.window_minutes > 0
              /\ config.poll_seconds > 0) => exc' = None
          /\ exc' = None =>
                /\ config'.period_seconds % 60 = 0
                /\ config'.period_seconds >= config.period_seconds
                /\ config'.period_seconds - 60 < config.period_seconds
                /\ config.period_seconds >= 60 =>
                      config'.period_seconds = WizardRound(config.period_seconds)
      ]_vars

C12_Witness == pc = "Normalized" /\ config.period_seconds = 120 /\ config.distribution_id = "E 1"

\* C13: when load_config returns a record for an existing file, the file
\* then holds exactly the six fields of that record, the record is a fixed
\* point of ensure_valid, and the load that follows writes nothing and
\* returns the same record.
C13_PersistedIsNormalized ==
    [][(op' \in {"load", "load_save"} /\ exc' = None /\ config_file.exists) =>
          /\ config_file'.exists /\ config_file'.json
          /\ JsonLoad(config_file'.members) = to_dict(config')
          /\ ensure_valid(config') = [raised |-> None, config |-> config']
          /\ ~load_config(config_file').wrote
          /\ pc = "Loaded" =>
                (op' = "load" /\ config_file' = config_file /\ config' = config)
      ]_vars

\* a file with a period of 90 and an id that needs two cleaning passes
C13_Witness ==
    /\ pc = "Loaded" /\ op = "load_save"
    /\ config.period_seconds = 120 /\ config.distribution_id = "E1"
    /\ config_file = JsonDump(to_dict(config))

\* C14: the period of every metrics query is a positive multiple of 60.
C14_QueryPeriodValid ==
    op = "query" => (config.period_seconds > 0 /\ config.period_seconds % 60 = 0)

\* the value the design gives a text setting and a numeric setting
TextSetting(raw, persisted) == IF raw = None \/ raw = "" THEN persisted ELSE raw
IntSetting(raw, persisted) ==
    IF raw # None /\ raw # "" /\ IntOf(raw).ok /\ IntOf(raw).n > 0
    THEN IntOf(raw).n ELSE persisted

\* C15: each of the six settings the loop uses is its override when that is
\* set to a non-empty value (a positive integer for the numeric ones) and
\* the persisted value otherwise.
C15_OverridePrecedence ==
    op = "overrides" =>
        /\ config.aws_profile = TextSetting(environ.CF_AWS_PROFILE, caller_config.aws_profile)
        /\ config.distribution_id =
              TextSetting(environ.CF_DISTRIBUTION_ID, caller_config.distribution_id)
        /\ config.region = TextSetting(environ.CF_CW_REGION, caller_config.region)
        /\ config.period_seconds =
              IntSetting(environ.CF_PERIOD_SECONDS, caller_config.period_seconds)
        /\ config.window_minutes =
              IntSetting(environ.CF_WINDOW_MINUTES, caller_config.window_minutes)
        /\ config.poll_seconds =
              IntSetting(environ.CF_POLL_SECONDS, caller_config.poll_seconds)

\* the statements of run_dashboard
DashboardPcs ==
    {"Entry", "CreateClient", "InitRender", "Fetching", "Handler", "Rendering",
     "WaitStart", "WaitCheck", "KeyRead", "ExitRequested"}

\* the handlers at their call of load_config
LoadingPcs == {"cmd:setup", "cmd:dashboard", "cmd:show-config", "cmd:list-distributions"}

\* C16: the config file is never deleted; it changes only where load_config
\* re-saves a normalized record or where the wizard saves; no step of
\* run_dashboard changes the file or the record the caller passed in.
C16_FileFrame ==
    [][ /\ config_file.exists => config_file'.exists
        /\ config_file' # config_file =>
              \/ /\ pc \in LoadingPcs
                 /\ load_config(config_file).wrote
                 /\ config_file' = load_config(config_file).file
              \/ pc = "run_setup" /\ outcome' = "Returned"
        /\ pc \in DashboardPcs =>
              (config_file' = config_file /\ caller_config' = caller_config)
      ]_vars

\* a run with a period override that went through two polls and was left
\* with q: the loop used 90, the caller's record and the file hold 120
C16_Witness ==
    /\ argv = "dashboard" /\ outcome = "ExitRequested" /\ fetches = 2
    /\ config.period_seconds = 90
    /\ caller_config.period_seconds = 120
    /\ config_file = JsonDump(to_dict(caller_config))

\* the latest value of a series that has one
LatestValue(k) == scalars[k].values[Len(scalars[k].values)]
Reported(k) == k \in DOMAIN scalars /\ scalars[k].values # <<>>

\* the three checks as the design states them, in tenths of the unit
ClaimedAvailability ==
    IF ~Reported("availability") THEN 0
    ELSE IF LatestValue("availability") < 980 THEN 2
    ELSE IF LatestValue("availability") < 995 THEN 1 ELSE 0
ClaimedErrors ==
    IF ~Reported("total_errors") THEN 0
    ELSE IF LatestValue("total_errors") > 50 THEN 2
    ELSE IF LatestValue("total_errors") > 10 THEN 1 ELSE 0
ClaimedLatency ==
    IF ~Reported("origin_latency") THEN 0
    ELSE IF LatestValue("origin_latency") > 4000 THEN 2
    ELSE IF LatestValue("origin_latency") > 2500 THEN 1 ELSE 0

\* C17: when the dict or the samples are non-empty, the label is Healthy,
\* Watch or Degraded according to the largest of the availability, error
\* rate and latency checks on the latest values; a series that is absent or
\* empty counts 0 and a value at a threshold counts as the milder level.
C17_HealthSeverity ==
    (pc = "HealthDone" /\ (DOMAIN scalars # {} \/ window.samples # <<>>)) =>
        health.label =
            CASE Max(ClaimedAvailability, Max(ClaimedErrors, ClaimedLatency)) = 0 -> "Healthy"
              [] Max(ClaimedAvailability, Max(ClaimedErrors, ClaimedLatency)) = 1 -> "Watch"
              [] OTHER -> "Degraded"

\* availability 99.0 %, error rate 0.5 %, latency 100 ms: Watch
C17_Witness ==
    /\ pc = "HealthDone" /\ health.label = "Watch"
    /\ Reported("availability") /\ LatestValue("availability") = 990
    /\ Reported("total_errors") /\ LatestValue("total_errors") = 5
    /\ Reported("origin_latency") /\ LatestValue("origin_latency") = 1000

\* the cycle holds no sample and no auxiliary value
NoDataHeld == window.samples = <<>> /\ \A k \in DOMAIN scalars : scalars[k].values = <<>>

\* C18: while the dashboard shows a cycle that holds no sample and no
\* auxiliary metric value, the health status is Monitoring.
C18_MonitoringWhenEmpty ==
    (/\ \/ pc \in {"WaitStart", "WaitCheck", "KeyRead"}
        \/ pc = "Fetching" /\ fetches = 0
     /\ NoDataHeld) => health.label = "Monitoring"

\* the faults that mean the credentials or the profile are missing
CredentialFaults == {"NoCredentialsError", "ProfileNotFound"}

\* C19: the process ends with exit code 1 (and the usage text) when the
\* subcommand is missing or unrecognized, with exit code 1 when a handler's
\* load_config fails, when the dashboard finds no resource id, and when it
\* ends on a missing-credentials fault; it ends with 0 when the handler
\* returns normally.
C19_ExitCodes ==
    [][ /\ (pc = "main" /\ argv \notin Commands /\ op' # "interrupt") =>
              (pc' = "Terminated" /\ ExitCode(outcome') = 1 /\ UsageText \in printed')
        /\ (pc \in LoadingPcs /\ load_config(config_file).raised # None
            /\ op' # "interrupt") =>
              (pc' = "Terminated" /\ ExitCode(outcome') = 1)
        /\ (pc = "Entry" /\ argv = "dashboard" /\ Falsy(config.distribution_id)
            /\ op' # "interrupt") =>
              (pc' = "Terminated" /\ ExitCode(outcome') = 1)
        /\ (pc # "Terminated" /\ pc' = "Terminated" /\ exc' \in CredentialFaults) =>
              ExitCode(outcome') = 1
        /\ (pc # "Terminated" /\ pc' = "Terminated"
            /\ outcome' \in {"Returned", "ExitRequested", "Shutdown"}) =>
              ExitCode(outcome') = 0
      ]_vars

\* the message printed when the listing of the wizard fails
ListingMessages ==
    {"Unable to list CloudFront distributions: " \o f :
        f \in {"ClientError", "EndpointConnectionError"}}

\* C20: a step of run_setup either ends with the fault of the credential
\* probe, uncaught, after its message and with the config file as it was,
\* or it returns with the record saved; a failed listing is reported and
\* the wizard still returns with the record saved. Nothing touches the
\* file once the wizard has ended.
C20_WizardFaults ==
    [][ /\ (pc = "run_setup" /\ op' = "run_setup") =>
              /\ pc' = "Terminated"
              /\ exc' # None =>
                    /\ outcome' = "Uncaught"
                    /\ ProbeMessage(exc') \in printed'
                    /\ config_file' = config_file
              /\ exc' = None =>
                    /\ outcome' = "Returned"
                    /\ config_file' = JsonDump(to_dict(config'))
              /\ printed' \cap ListingMessages # {} => outcome' = "Returned"
        /\ (pc = "Terminated" /\ argv = "setup") => config_file' = config_file
      ]_vars

\* the probe failed where no file existed: the wizard ended, there is none
C20_Witness ==
    /\ argv = "setup" /\ pc = "Terminated" /\ op = "run_setup"
    /\ outcome = "Uncaught" /\ exc = "NoCredentialsError"
    /\ ~config_file.exists

\* ------------------------------------------- the byte formatter on its own inputs
MaxDigits == 4
MaxZeros == 2

\* digits of a base-1024 numeral: the smallest, the largest and two between
DigitChoices == {0, 1, 512, 1023}

Zeros(n) == [i \in 1..n |-> 0]

\* non-negative counts: up to MaxDigits free leading digits, then zeros, with or
\* without a half after the point
ByteValues ==
    {Float1024(int, frac) :
        int \in {d \in {h \o Zeros(k) : h \in SeqsUpTo(DigitChoices, MaxDigits),
                                          k \in 0..MaxZeros} : d = <<>> \/ d[1] # 0},
        frac \in {<<>>, <<512>>}}

InitBytes ==
    /\ pc = "FormatInput"
    /\ byte_value \in ByteValues
    /\ formatted = NoFormatted
    /\ refresh_hz = NoRate
    /\ LAST_EXPORT = NoExport
    /\ USE_DARK_THEME = FALSE
    /\ choice = NoChoice
    /\ exported = <<>>
    /\ config = DefaultConfig
    /\ config_file = NoFile
    /\ caller_config = config
    /\ argv = NoArgv
    /\ environ = NoOverrides
    /\ platform = "select"
    /\ LoopAtRest

\* _format_bytes(value) for one metric of the side panel
FormatBytes ==
    /\ pc = "FormatInput"
    /\ formatted' = _format_bytes(byte_value)
    /\ pc' = "FormatDone"
    /\ op' = "format_bytes"
    /\ UNCHANGED <<outcome, config, environ, platform, window, scalars, last_refresh,
                   health, shown, now, deadline, remaining, timeout, key, exc,
                   fetches, cycleQueries, waits, printed, lastQuery, waitBegan,
                   config_file, caller_config, argv, refresh_hz, byte_value,
                   LAST_EXPORT, USE_DARK_THEME, choice, exported>>

NextBytes == FormatBytes

SpecBytes == InitBytes /\ [][NextBytes]_vars

\* ---------------------------------------------------------------- C21
\* the number of the unit a count of that many integer digits belongs to
UnitNumber(v) == Min(Len(Units), Max(1, Len(v.int)))

\* C21: for every non-negative byte value the formatter's unit is the largest of
\* Bytes, KB, MB, GB, TB whose scaled value is at least 1 (Bytes below 1024, TB
\* at most), the scaled value is the input divided by 1024 once per unit step,
\* and it is below 1024 for every unit but TB; 1,048,576 comes out as 1 MB.
C21_FormatBytes ==
    pc = "FormatDone" =>
        LET k == UnitNumber(byte_value)
            s == formatted.scaled
        IN /\ formatted.unit = Units[k]
           /\ s.int \o s.frac = byte_value.int \o byte_value.frac
           /\ Len(s.int) = Len(byte_value.int) - (k - 1)
           /\ byte_value.int # <<>> => s.int # <<>>
           /\ formatted.unit # "TB" => Len(s.int) <= 1
           /\ byte_value = Float1024(<<1, 0, 0>>, <<>>) =>
                 /\ formatted.unit = "MB"
                 /\ s = Float1024(<<1>>, <<0, 0>>)
                 /\ formatted.text = [int |-> <<1>>, cents |-> 0]

C21_Witness ==
    /\ pc = "FormatDone"
    /\ byte_value = Float1024(<<1, 0, 0>>, <<>>)
    /\ formatted.unit = "MB"
    /\ formatted.text = [int |-> <<1>>, cents |-> 0]

\* ---------------------------------------------------------------- C22
\* the JSON text of the defaults, keys sorted
DefaultsJson ==
    JsonFile(<<Member("aws_profile", Null), Member("distribution_id", Null),
               Member("period_seconds", Obj(300)), Member("poll_seconds", Obj(30)),
               Member("region", Str("us-east-1")), Member("window_minutes", Obj(60))>>)

\* C22: with no configuration file, loading does not fail and yields
\* period_seconds=300, window_minutes=60, poll_seconds=30, region us-east-1, no
\* profile and no resource id; show-config prints these values and exits 0.
C22_DefaultsWithoutFile ==
    [][(pc = "cmd:show-config" /\ config_file = NoFile /\ op' = "cmd_show_config") =>
          /\ load_config(config_file).raised = None
          /\ config' = [aws_profile |-> None, distribution_id |-> None,
                        region |-> "us-east-1", period_seconds |-> 300,
                        window_minutes |-> 60, poll_seconds |-> 30]
          /\ shown' = DefaultsJson
          /\ "Config path" \in printed'
          /\ "Failed to read config" \notin printed'
          /\ outcome' = "Returned"
          /\ ExitCode(outcome') = 0
          /\ exc' = None
          /\ config_file' = NoFile]_vars

C22_Witness ==
    /\ argv = "show-config"
    /\ pc = "Terminated"
    /\ op = "cmd_show_config"
    /\ config_file = NoFile
    /\ outcome = "Returned"
    /\ shown = DefaultsJson

\* ------------------------------------------- the repaint rate on its own inputs
MaxPoll == 130

InitRefresh ==
    /\ pc = "RefreshInput"
    /\ config \in {[DefaultConfig EXCEPT !.poll_seconds = p] : p \in 1..MaxPoll}
    /\ refresh_hz = NoRate
    /\ byte_value = NoValue
    /\ formatted = NoFormatted
    /\ LAST_EXPORT = NoExport
    /\ USE_DARK_THEME = FALSE
    /\ choice = NoChoice
    /\ exported = <<>>
    /\ config_file = NoFile
    /\ caller_config = config
    /\ argv = NoArgv
    /\ environ = NoOverrides
    /\ platform = "select"
    /\ LoopAtRest

\* line 651 for one poll interval
RefreshRate ==
    /\ pc = "RefreshInput"
    /\ refresh_hz' = RefreshHz(config.poll_seconds)
    /\ pc' = "RefreshDone"
    /\ op' = "refresh_hz"
    /\ UNCHANGED <<outcome, config, environ, platform, window, scalars, last_refresh,
                   health, shown, now, deadline, remaining, timeout, key, exc,
                   fetches, cycleQueries, waits, printed, lastQuery, waitBegan,
                   config_file, caller_config, argv, byte_value, formatted,
                   LAST_EXPORT, USE_DARK_THEME, choice, exported>>

NextRefresh == RefreshRate

SpecRefresh == InitRefresh /\ [][NextRefresh]_vars

\* ---------------------------------------------------------------- C23
\* r = clamp(60 / max(1, p / 2), 1, 10) with both divisions exact: the quotient
\* is 120 / max(2, p)
IsClampedQuotient(r, p) ==
    LET m == Max(2, p)
    IN IF 120 >= 10 * m THEN r = 10
       ELSE IF 120 <= m THEN r = 1
       ELSE r * m = 120

\* r = clamp(60 // max(1, p // 2), 1, 10) with both divisions rounded down
IsClampedFloor(r, p) ==
    \E h \in 0..p, q \in 0..60 :
        /\ 2 * h <= p /\ p < 2 * (h + 1)
        /\ q * Max(1, h) <= 60 /\ 60 < (q + 1) * Max(1, h)
        /\ r = (IF q > 10 THEN 10 ELSE IF q < 1 THEN 1 ELSE q)

\* C23 as stated: for every positive integer poll interval the repaint rate
\* equals clamp(60 / max(1, poll_seconds / 2), 1, 10) and lies between 1 and 10.
C23_RateAsStated ==
    pc = "RefreshDone" =>
        /\ IsClampedQuotient(refresh_hz, config.poll_seconds)
        /\ refresh_hz \in 1..10

\* C23 amended: for every positive integer poll interval the repaint rate equals
\* clamp(60 // max(1, poll_seconds // 2), 1, 10), both divisions rounded down,
\* and is an integer between 1 and 10.
C23_RateFloored ==
    pc = "RefreshDone" =>
        /\ IsClampedFloor(refresh_hz, config.poll_seconds)
        /\ refresh_hz \in 1..10

C23_Witness ==
    /\ pc = "RefreshDone"
    /\ config.poll_seconds = 13
    /\ refresh_hz = 10

\* ------------------------------------------- the loop under a fair scheduler
\* one configured run on each of the three key-reading branches
InitLive ==
    /\ Init
    /\ config = WonderConfig(None, "E1", "us-east-1", 300, 60, 1)
    /\ environ.CF_DISTRIBUTION_ID = None
    /\ environ.CF_PERIOD_SECONDS = None

\* The interpreter runs the next statement of run_dashboard whenever there is
\* one, and the monotonic clock does not stand still over infinitely many key
\* reads; signals and the operator's keys are under no obligation.
Fairness ==
    /\ WF_vars(CheckResource)
    /\ WF_vars(CreateClient)
    /\ WF_vars(InitRender)
    /\ WF_vars(Fetch)
    /\ WF_vars(HandleFailure)
    /\ WF_vars(Render)
    /\ WF_vars(WaitStart)
    /\ WF_vars(WaitCheck)
    /\ WF_vars(KeyRead)
    /\ WF_vars(ExitRequested)
    /\ SF_vars(KeyRead /\ now' > now)

SpecLive == InitLive /\ [][Next]_vars /\ Fairness

\* ---------------------------------------------------------------- C24
Waiting == pc \in {"WaitCheck", "KeyRead"}

\* an exit key was read or an interrupt arrived
LeftByOperator == pc = "ExitRequested" \/ outcome \in {"ExitRequested", "Shutdown"}

\* the deadline is set once, poll_seconds after the wait began, and the wait
\* returns False at the first check at or after it, never before
C24_DeadlineFixed ==
    [][ /\ (pc = "WaitStart" /\ pc' = "WaitCheck") => deadline' = now + PollTicks
        /\ (Waiting /\ Waiting') => deadline' = deadline /\ now' >= now
        /\ (pc = "WaitCheck" /\ pc' = "Fetching") => now >= deadline
        /\ (pc = "WaitCheck" /\ pc' = "KeyRead") => now < deadline ]_vars

\* C24: every wait eventually ends, its deadline being fixed when it begins
\* whatever non-exit keys are pressed; and once a fetch has returned (or its
\* fault was handled), unless an exit key or an interrupt arrives, the loop
\* reaches the next fetch.
C24_WaitsEnd ==
    /\ C24_DeadlineFixed
    /\ Waiting ~> ~Waiting
    /\ (pc \in {"Rendering", "WaitStart"} /\ fetches < MaxCycles)
          ~> (pc = "Fetching" \/ LeftByOperator)

\* a wait that saw a non-exit key and ran to its deadline
C24_Witness ==
    /\ pc = "Fetching"
    /\ waits = 1
    /\ key = None
    /\ op = "waitcheck"
    /\ now >= PollTicks
    /\ shown.remaining # NoRemaining

\* ---------------------------------------------------------------- C25
\* the results of a response that belong to the primary series
PrimaryResults(q) == {i \in 1..Len(q.results) : q.results[i].Id = "requests"}

\* C25: the status of the window a successful fetch returns is the status
\* code reported for the primary (requests) series, whatever auxiliary results
\* the same response holds and in whatever order.
C25_PrimaryStatus ==
    (/\ pc = "FetcherDone"
     /\ exc = None
     /\ Cardinality(PrimaryResults(lastQuery)) = 1) =>
        window.status = LastResultFor(lastQuery, "requests").StatusCode

\* ---------------------------------------------------------------- C26
\* the window the loop holds once the attempt with outcome q has been handled
DerivesFrom(w, q) ==
    IF q.fault = None
    THEN w = fetch_request_series(q, EmptyScalars).window
    ELSE w.samples = <<>> /\ w.status = FailureStatus(q)

\* C26: at every render of the loop and throughout every wait, the window,
\* the auxiliary-metric map and the health header on the terminal are those the
\* loop holds, and all three derive from the most recent fetch attempt.
C26_OneCycleShown ==
    Phase = "Waiting" =>
        /\ shown.window = window
        /\ shown.scalars = scalars
        /\ shown.health = health
        /\ DerivesFrom(window, lastQuery)
        /\ scalars = ReturnedAux(lastQuery)
        /\ health = _compute_health(ReturnedAux(lastQuery), window.samples)

\* a repaint during the wait of a second cycle whose fetch failed
C26_Witness ==
    /\ pc = "WaitCheck"
    /\ fetches = 2
    /\ lastQuery.fault = "ClientError"
    /\ shown.remaining # NoRemaining
    /\ shown.window.status = "CloudWatchError"
    /\ shown.scalars = EmptyScalars

\* ---------------------------------------------------------------- C27
\* C27: the resource-id requirement is checked on the configuration as loaded,
\* before the environment overrides are applied: with no resource id in it
\* the run exits with code 1 at the check, the overrides are never applied and
\* nothing is fetched, whatever CF_DISTRIBUTION_ID holds.
C27_CheckBeforeOverrides ==
    [][ /\ (pc = "Entry" /\ Falsy(config.distribution_id) /\ op' = "check") =>
              /\ pc' = "Terminated"
              /\ outcome' = "SystemExit(1)"
              /\ ExitCode(outcome') = 1
              /\ config' = config
              /\ fetches' = 0
        /\ op' = "create" => (op = "check" /\ ~Falsy(config.distribution_id))
        /\ Falsy(caller_config.distribution_id) => (op' # "create" /\ fetches' = 0)
      ]_vars

C27_Witness ==
    /\ pc = "Terminated"
    /\ op = "check"
    /\ outcome = "SystemExit(1)"
    /\ config.distribution_id = None
    /\ environ.CF_DISTRIBUTION_ID = "E2"
    /\ fetches = 0

\* ---------------------------------------------------------------- C28
\* C28: for every content of an existing configuration file, load_config
\* either returns a normalized configuration or raises RuntimeError and
\* nothing else, and when it fails the file is left as it was.
C28_OnlyRuntimeError ==
    [][(op' \in {"load", "load_save"} /\ config_file.exists) =>
          /\ exc' \in {None, "RuntimeError"}
          /\ exc' = None => ensure_valid(config') = [raised |-> None, config |-> config']
          /\ exc' # None => config_file' = config_file
      ]_vars

\* ---------------------------------------------------------------- the hub
MaxExports == 1

\* input() at end of input
EOF == "<EOF>"

\* the title is recorded without the rows
RecordWithoutRows(title, headers, rows) == ExportBundle(title, headers, <<>>)

\* hub.py lines 93-95: the new value of LAST_EXPORT
_record_export(title, headers, rows) == ExportBundle(title, headers, rows)

\* the operations of the hub that build a table, by function name
TableOps ==
    {"_s3_list_buckets", "_s3_bucket_analytics", "_ec2_list_instances",
     "_lambda_list_functions", "_lambda_invocation_stats", "_error_watch",
     "_who_am_i", "_logs_snapshot"}

\* the title each operation records
Title(name) ==
    CASE name = "_s3_list_buckets" -> "S3 Buckets"
      [] name = "_s3_bucket_analytics" -> "S3 Bucket Analytics"
      [] name = "_ec2_list_instances" -> "EC2 Instances"
      [] name = "_lambda_list_functions" -> "Lambda Functions"
      [] name = "_lambda_invocation_stats" -> "Lambda Invocation Stats"
      [] name = "_error_watch" -> "Error Watch"
      [] name = "_who_am_i" -> "STS Identity"
      [] OTHER -> "Logs Snapshot: g1"

\* the column headers each operation records
Headers(name) ==
    CASE name = "_s3_list_buckets" -> <<"Bucket", "Created">>
      [] name = "_s3_bucket_analytics" -> <<"Bucket", "Objects", "Size (MB)", "Region">>
      [] name = "_ec2_list_instances" -> <<"Instance", "State", "Name", "Launched">>
      [] name = "_lambda_list_functions" -> <<"Function", "Runtime", "Updated">>
      [] name = "_lambda_invocation_stats" -> <<"Function", "Invocations", "Errors", "Duration (ms)">>
      [] name = "_error_watch" -> <<"Log Group", "Error Count", "Latest Error">>
      [] name = "_who_am_i" -> <<"Field", "Value">>
      [] OTHER -> <<"Time (UTC)", "Stream", "Message">>

\* the row shown when the service returns nothing
Placeholder(name) ==
    CASE name = "_s3_list_buckets" -> <<"No buckets found", "">>
      [] name = "_s3_bucket_analytics" -> <<"No buckets found", "0", "0", "N/A">>
      [] name = "_ec2_list_instances" -> <<"No instances", "", "", "">>
      [] name = "_lambda_list_functions" -> <<"No functions found", "", "">>
      [] name = "_lambda_invocation_stats" -> <<"No functions found", "0", "0", "0">>
      [] name = "_error_watch" -> <<"No log groups found", "0", "">>
      [] name = "_who_am_i" -> <<"Account", "?">>
      [] OTHER -> <<"No events found", "", "">>

\* what the service answers with: the items as rows, none, or a fault
Answers(name) ==
    (IF name = "_s3_list_buckets"
     THEN {QueryOk(<<<<"b1", "2024-01-01 00:00">>>>)}
     ELSE IF name = "_who_am_i"
     THEN {QueryOk(<<<<"Account", "111122223333">>, <<"ARN", "arn:u1">>,
                     <<"User ID", "u1">>>>)}
     ELSE {})
    \cup (IF name = "_who_am_i"
          THEN {}
          ELSE {QueryOk(<<>>)})
    \cup {QueryFault("ClientError"), QueryFault("EndpointConnectionError")}

\* the rows an operation builds from the items
Rows(name, items) == IF items = <<>> THEN <<Placeholder(name)>> ELSE items

\* except (ClientError, BotoCoreError)
HubCaught(e) == IsInstance(e, "ClientError") \/ IsInstance(e, "BotoCoreError")

\* the files load_config may find while the hub runs
HubFiles ==
    {NoFile, BadJson, JsonDump(to_dict(WonderConfig(None, "E1", "us-east-1", 300, 60, 1)))}

\* IntPrompt.ask at end of input
EndOfInput == 0 - 2

\* what the operator types at the main menu
MenuInputs == (0..11) \cup {EndOfInput}

\* launch_hub lines 784-795: the handler of each selection
HandlerOf(n) ==
    CASE n = 1 -> "_launch_cloudfront"
      [] n = 2 -> "_s3_menu"
      [] n = 3 -> "_ec2_menu"
      [] n = 4 -> "_lambda_menu"
      [] n = 5 -> "_logs_snapshot"
      [] n = 6 -> "_error_watch"
      [] n = 7 -> "_settings"
      [] n = 8 -> "_who_am_i"
      [] n = 9 -> "_export_menu"
      [] n = 10 -> "_toggle_dark_mode"
      [] OTHER -> None

\* the variables of the dashboard, which the hub's own code does not touch
HubFrame ==
    UNCHANGED <<environ, platform, window, scalars, last_refresh, health, shown, now,
                deadline, remaining, timeout, key, fetches, cycleQueries, waits,
                waitBegan, caller_config, argv, refresh_hz, byte_value, formatted>>

InitHub ==
    /\ pc = "launch_hub"
    /\ config_file \in HubFiles
    /\ platform \in {"select", "sleep"}
    /\ config = DefaultConfig
    /\ caller_config = config
    /\ environ = NoOverrides
    /\ argv = NoArgv
    /\ refresh_hz = NoRate
    /\ byte_value = NoValue
    /\ formatted = NoFormatted
    /\ LAST_EXPORT = NoExport
    /\ USE_DARK_THEME = FALSE
    /\ choice = NoChoice
    /\ exported = <<>>
    /\ LoopAtRest

\* an exception leaves the hub: the process ends
Die(e) ==
    /\ pc' = "Terminated"
    /\ outcome' = IF e = "SystemExit(1)" THEN "SystemExit(1)" ELSE "Uncaught"
    /\ exc' = e

\* input("Press Enter ..."), then on to the statement at back
PressEnter(back) ==
    \E line \in {"", EOF} :
        IF line = EOF THEN Die("EOFError")
        ELSE pc' = back /\ UNCHANGED <<outcome, exc>>

\* launch_hub lines 780-782: the hub needs a terminal
LaunchHub ==
    /\ pc = "launch_hub"
    /\ IF platform = "sleep"
       THEN /\ printed' = {"WonderDash hub needs an interactive terminal. Run this from a shell."}
            /\ outcome' = "Returned"
            /\ pc' = "Terminated"
       ELSE /\ pc' = "hub:menu"
            /\ UNCHANGED <<printed, outcome>>
    /\ op' = "launch_hub"
    /\ UNCHANGED <<choice, exc, LAST_EXPORT, USE_DARK_THEME, exported, config_file, config,
                   lastQuery>>
    /\ HubFrame

\* lines 797-815: the menu (on a cleared screen), the prompt, and the dispatch
HubSelect ==
    /\ pc = "hub:menu"
    /\ \E typed \in MenuInputs :
         IF typed = EndOfInput
         THEN /\ printed' = {"Interactive input is unavailable."}
              /\ outcome' = "Returned"
              /\ pc' = "Terminated"
              /\ UNCHANGED <<choice, exc>>
         ELSE /\ choice' = typed
              /\ IF typed = 0
                 THEN /\ printed' = {"Goodbye."}
                      /\ outcome' = "Returned"
                      /\ pc' = "Terminated"
                      /\ UNCHANGED exc
                 ELSE IF HandlerOf(typed) = None
                 THEN /\ printed' = {"Invalid choice, try again."}
                      /\ PressEnter("hub:menu")
                 ELSE /\ printed' = {}
                      /\ pc' = "hub:handler"
                      /\ UNCHANGED <<outcome, exc>>
    /\ op' = "select"
    /\ lastQuery' = NoQuery
    /\ UNCHANGED <<LAST_EXPORT, USE_DARK_THEME, exported, config_file, config>>
    /\ HubFrame

\* The pattern of the table operations (for example lines 616-642): the
\* session (load_config inside _aws_session), the service call, the table and
\* _record_export inside try; a caught fault shows a panel; then Press Enter.
RunTable(name, back) ==
    LET r == load_config(config_file)
    IN /\ config_file' = r.file
       /\ IF r.raised # None
          THEN /\ Die(r.raised)
               /\ lastQuery' = NoQuery
               /\ UNCHANGED <<LAST_EXPORT, config>>
          ELSE /\ UNCHANGED config
               /\ \E a \in Answers(name) :
                    /\ lastQuery' = a
                    /\ IF a.fault = None
                       THEN /\ LAST_EXPORT' = _record_export(Title(name), Headers(name),
                                                             Rows(name, a.results))
                            /\ PressEnter(back)
                       ELSE /\ UNCHANGED LAST_EXPORT
                            /\ IF HubCaught(a.fault) THEN PressEnter(back) ELSE Die(a.fault)

\* lines 772-776: load_config, then run_dashboard until it returns or raises
LaunchCloudfront ==
    /\ pc = "hub:handler" /\ choice = 1
    /\ LET r == load_config(config_file)
       IN /\ config_file' = r.file
          /\ IF r.raised # None
             THEN Die(r.raised) /\ UNCHANGED <<config, printed>>
             ELSE /\ UNCHANGED config
                  /\ IF ResourceMissing(r.config)
                     THEN /\ Die("SystemExit(1)")
                          /\ printed' = printed \cup {"No CloudFront distribution configured. Run wonder-dash setup first"}
                     ELSE /\ \E o \in {"ExitRequested", "Shutdown", "ValueError"} :
                               IF o = "ValueError" THEN Die(o)
                               ELSE pc' = "hub:menu" /\ UNCHANGED <<outcome, exc>>
                          /\ UNCHANGED printed
    /\ op' = "_launch_cloudfront"
    /\ UNCHANGED <<choice, LAST_EXPORT, USE_DARK_THEME, exported, lastQuery>>
    /\ HubFrame

\* lines 313-345: the S3, EC2 and Lambda selections open a submenu
EnterSubmenu ==
    /\ pc = "hub:handler" /\ choice \in {2, 3, 4}
    /\ pc' = (CASE choice = 2 -> "hub:s3" [] choice = 3 -> "hub:ec2" [] OTHER -> "hub:lambda")
    /\ op' = HandlerOf(choice)
    /\ UNCHANGED <<choice, outcome, exc, printed, LAST_EXPORT, USE_DARK_THEME, exported,
                   config_file, config, lastQuery>>
    /\ HubFrame

\* the options of each submenu
Options(menu, n) ==
    CASE menu = "hub:s3" /\ n = 1 -> "_s3_list_buckets"
      [] menu = "hub:s3" /\ n = 2 -> "_s3_bucket_analytics"
      [] menu = "hub:ec2" /\ n = 1 -> "_ec2_list_instances"
      [] menu = "hub:ec2" /\ n = 2 -> "_ec2_instance_actions"
      [] menu = "hub:ec2actions" /\ n \in {1, 2, 3} -> "_ec2_action"
      [] menu = "hub:lambda" /\ n = 1 -> "_lambda_list_functions"
      [] menu = "hub:lambda" /\ n = 2 -> "_lambda_invocation_stats"
      [] OTHER -> None

\* where Back leads
Parent(menu) == IF menu = "hub:ec2actions" THEN "hub:ec2" ELSE "hub:menu"

\* lines 347-370: start, stop or reboot of the instance typed at the prompt
Ec2Action(back) ==
    \E typed \in {EOF, "", "i-1"} :
        IF typed = EOF
        THEN Die("EOFError") /\ UNCHANGED <<config_file, config, lastQuery, printed>>
        ELSE IF typed = ""
        THEN /\ printed' = {"No instance ID provided."}
             /\ PressEnter(back)
             /\ UNCHANGED <<config_file, config, lastQuery>>
        ELSE LET r == load_config(config_file)
             IN /\ config_file' = r.file
                /\ UNCHANGED printed
                /\ IF r.raised # None
                   THEN Die(r.raised) /\ lastQuery' = NoQuery /\ UNCHANGED config
                   ELSE /\ UNCHANGED config
                        /\ \E a \in {QueryOk(<<>>), QueryFault("ClientError")} :
                              lastQuery' = a /\ PressEnter(back)

\* lines 243-265: one round of _submenu_loop
SubmenuLoop ==
    /\ pc \in {"hub:s3", "hub:ec2", "hub:ec2actions", "hub:lambda"}
    /\ \E typed \in (0..4) \cup {EndOfInput} :
         IF typed = EndOfInput
         THEN /\ Die("EOFError")
              /\ op' = "_submenu_loop"
              /\ lastQuery' = NoQuery
              /\ UNCHANGED <<printed, LAST_EXPORT, config_file, config>>
         ELSE IF typed = 0
         THEN /\ pc' = Parent(pc)
              /\ op' = "_submenu_loop"
              /\ lastQuery' = NoQuery
              /\ UNCHANGED <<outcome, exc, printed, LAST_EXPORT, config_file, config>>
         ELSE IF Options(pc, typed) = None
         THEN /\ printed' = {"Invalid choice."}
              /\ PressEnter(pc)
              /\ op' = "_submenu_loop"
              /\ lastQuery' = NoQuery
              /\ UNCHANGED <<LAST_EXPORT, config_file, config>>
         ELSE IF Options(pc, typed) = "_ec2_instance_actions"
         THEN /\ pc' = "hub:ec2actions"
              /\ op' = "_ec2_instance_actions"
              /\ lastQuery' = NoQuery
              /\ UNCHANGED <<outcome, exc, printed, LAST_EXPORT, config_file, config>>
         ELSE IF Options(pc, typed) = "_ec2_action"
         THEN /\ Ec2Action(pc)
              /\ op' = "_ec2_action"
              /\ UNCHANGED LAST_EXPORT
         ELSE /\ RunTable(Options(pc, typed), pc)
              /\ op' = Options(pc, typed)
              /\ UNCHANGED printed
    /\ UNCHANGED <<choice, USE_DARK_THEME, exported>>
    /\ HubFrame

\* lines 372-482: the prompts, the log groups, the choice of a group and the
\* snapshot of its events; only a snapshot that was fetched is recorded
LogsSnapshot ==
    /\ pc = "hub:handler" /\ choice = 5
    /\ LET r == load_config(config_file)
       IN \E path \in {"eof", "loaded"} :
               IF path = "eof"
               THEN /\ Die("EOFError")
                    /\ lastQuery' = NoQuery
                    /\ UNCHANGED <<LAST_EXPORT, config, config_file>>
               ELSE IF r.raised # None
               THEN /\ Die(r.raised)
                    /\ lastQuery' = NoQuery
                    /\ config_file' = r.file
                    /\ UNCHANGED <<LAST_EXPORT, config>>
               ELSE /\ UNCHANGED config
                    /\ config_file' = r.file
                    /\ \E groups \in {"fault", "none", "cancelled", "chosen"} :
                         IF groups = "chosen"
                         THEN \E a \in Answers("_logs_snapshot") :
                                /\ lastQuery' = a
                                /\ LAST_EXPORT' =
                                     IF a.fault = None
                                     THEN _record_export(Title("_logs_snapshot"),
                                                         Headers("_logs_snapshot"),
                                                         Rows("_logs_snapshot", a.results))
                                     ELSE LAST_EXPORT
                                /\ PressEnter("hub:menu")
                         ELSE /\ lastQuery' = IF groups = "fault"
                                               THEN QueryFault("ClientError") ELSE NoQuery
                              /\ UNCHANGED LAST_EXPORT
                              /\ IF groups = "cancelled"
                                 THEN pc' = "hub:menu" /\ UNCHANGED <<outcome, exc>>
                                 ELSE PressEnter("hub:menu")
    /\ op' = "_logs_snapshot"
    /\ UNCHANGED <<choice, printed, USE_DARK_THEME, exported>>
    /\ HubFrame

\* lines 718-761 and 98-119: Error Watch and Who am I
TopTable ==
    /\ pc = "hub:handler" /\ choice \in {6, 8}
    /\ RunTable(HandlerOf(choice), "hub:menu")
    /\ op' = HandlerOf(choice)
    /\ UNCHANGED <<choice, printed, USE_DARK_THEME, exported>>
    /\ HubFrame

\* lines 764-769: the configuration is loaded and printed
Settings ==
    /\ pc = "hub:handler" /\ choice = 7
    /\ LET r == load_config(config_file)
       IN /\ config_file' = r.file
          /\ IF r.raised # None
             THEN Die(r.raised) /\ UNCHANGED <<config, printed>>
             ELSE /\ UNCHANGED config
                  /\ printed' = {"Current configuration:"}
                  /\ PressEnter("hub:menu")
    /\ op' = "_settings"
    /\ UNCHANGED <<choice, LAST_EXPORT, USE_DARK_THEME, exported, lastQuery>>
    /\ HubFrame

\* lines 122-126: the export menu with nothing recorded, or its first screen
ExportMenu ==
    /\ pc = "hub:handler" /\ choice = 9
    /\ IF LAST_EXPORT = NoExport
       THEN /\ printed' = {"No exportable data yet."}
            /\ PressEnter("hub:menu")
       ELSE /\ pc' = "hub:export"
            /\ UNCHANGED <<printed, outcome, exc>>
    /\ op' = "_export_menu"
    /\ UNCHANGED <<choice, LAST_EXPORT, USE_DARK_THEME, exported, config_file, config,
                   lastQuery>>
    /\ HubFrame

\* lines 128-158 with 161-190: one round of the export menu; the bundle goes
\* to a CSV file or to the clipboard unless the write fails; exported holds
\* the bundles that were written out, the message says where to
ExportRound ==
    /\ pc = "hub:export"
    /\ \E typed \in (0..3) \cup {EndOfInput} :
         IF typed = EndOfInput
         THEN Die("EOFError") /\ UNCHANGED <<exported, printed>>
         ELSE IF typed = 0
         THEN pc' = "hub:menu" /\ UNCHANGED <<outcome, exc, exported, printed>>
         ELSE IF typed \in {1, 2}
         THEN /\ Len(exported) < MaxExports
              /\ \E written \in BOOLEAN :
                   /\ exported' = IF written THEN Append(exported, LAST_EXPORT) ELSE exported
                   /\ printed' = {IF typed = 1
                                  THEN IF written THEN "Saved to <path>" ELSE "Failed to save"
                                  ELSE IF written
                                       THEN "Copied table to clipboard (CSV format)."
                                       ELSE "Clipboard copy failed"}
              /\ PressEnter("hub:export")
         ELSE /\ printed' = {"Invalid choice."}
              /\ PressEnter("hub:export")
              /\ UNCHANGED exported
    /\ op' = "_export_menu"
    /\ UNCHANGED <<choice, LAST_EXPORT, USE_DARK_THEME, config_file, config, lastQuery>>
    /\ HubFrame

\* lines 193-198
ToggleDarkMode ==
    /\ pc = "hub:handler" /\ choice = 10
    /\ USE_DARK_THEME' = ~USE_DARK_THEME
    /\ printed' = {IF USE_DARK_THEME' THEN "Switched to Dark theme."
                   ELSE "Switched to Light theme."}
    /\ PressEnter("hub:menu")
    /\ op' = "_toggle_dark_mode"
    /\ UNCHANGED <<choice, LAST_EXPORT, exported, config_file, config, lastQuery>>
    /\ HubFrame

NextHub ==
    \/ LaunchHub
    \/ HubSelect
    \/ LaunchCloudfront
    \/ EnterSubmenu
    \/ SubmenuLoop
    \/ LogsSnapshot
    \/ TopTable
    \/ Settings
    \/ ExportMenu
    \/ ExportRound
    \/ ToggleDarkMode

SpecHub == InitHub /\ [][NextHub]_vars

\* ---------------------------------------------------------------- C29
\* the positions of the hub's loops
HubPcs == {"hub:menu", "hub:handler", "hub:s3", "hub:ec2", "hub:ec2actions", "hub:lambda",
           "hub:export"}

\* C29: the hub menu loop ends only when the operator selects 0 or input
\* becomes unavailable; an invalid selection runs no handler and leads back to
\* the menu; after a valid selection that selection's handler runs and the
\* menu is shown again, also when the handler meets a failure.
C29_MenuLoopGoesOn ==
    [][ /\ (pc \in HubPcs /\ pc' = "Terminated") =>
              \/ op' = "select" /\ (choice' = 0 \/ printed' = {"Interactive input is unavailable."})
              \/ exc' = "EOFError"
        /\ (pc = "hub:menu" /\ op' = "select" /\ choice' \notin 0..10 /\ pc' # "Terminated") =>
              (pc' = "hub:menu" /\ LAST_EXPORT' = LAST_EXPORT /\ exported' = exported
               /\ config_file' = config_file /\ USE_DARK_THEME' = USE_DARK_THEME)
        /\ (pc = "hub:handler") => (op' = HandlerOf(choice) /\ choice' = choice)
      ]_vars

\* ---------------------------------------------------------------- C30
\* the operations that show no table: they leave the last export alone
NoTableOps == {"select", "launch_hub", "_launch_cloudfront", "_s3_menu", "_ec2_menu",
               "_lambda_menu", "_submenu_loop", "_ec2_instance_actions", "_ec2_action",
               "_settings", "_export_menu", "_toggle_dark_mode"}

\* C30: the hub remembers title, headers and rows of the table shown last by a
\* table or listing operation that succeeded; an operation that fails before
\* its table, and every operation that shows no table, leaves the last export
\* as it was; without a remembered table the export menu exports nothing and
\* returns; with one, what is exported is the remembered table.
C30_LastExport ==
    [][ /\ (LAST_EXPORT' # LAST_EXPORT) =>
              (op' \in TableOps /\ lastQuery' # NoQuery /\ lastQuery'.fault = None)
        /\ (op' \in TableOps /\ lastQuery'.fault = None /\ lastQuery' # NoQuery) =>
              LAST_EXPORT' = ExportBundle(Title(op'), Headers(op'),
                                          Rows(op', lastQuery'.results))
        /\ (op' \in TableOps /\ (lastQuery'.fault # None \/ lastQuery' = NoQuery)) =>
              LAST_EXPORT' = LAST_EXPORT
        /\ (op' \in NoTableOps) => LAST_EXPORT' = LAST_EXPORT
        /\ (pc = "hub:handler" /\ choice = 9 /\ LAST_EXPORT = NoExport) =>
              (exported' = exported /\ pc' # "hub:export"
               /\ "No exportable data yet." \in printed')
        /\ (exported' # exported) =>
              (/\ pc = "hub:export"
               /\ LAST_EXPORT # NoExport
               /\ Len(exported') = Len(exported) + 1
               /\ exported'[Len(exported')] = LAST_EXPORT)
      ]_vars

\* reached: the bucket listing succeeded and the remembered bucket table was
\* exported to a CSV file
C30_Witness ==
    /\ LAST_EXPORT.title = Title("_s3_list_buckets")
    /\ LAST_EXPORT.rows # <<Placeholder("_s3_list_buckets")>>
    /\ op = "_export_menu"
    /\ exported # <<>>
    /\ exported[1] = LAST_EXPORT
    /\ printed = {"Saved to <path>"}

====
